---- MODULE Spec2Model ----
(***************************************************************************)
(* JMOSS air-data calibration: the JmossEstimator registry of test points, *)
(* per-point results and the cross-point SPE model                         *)
(* (src/JMOSS/estimation.py).                                              *)
(*                                                                         *)
(* Conventions of the model                                                *)
(*   - Python's None and "attribute not set" are the empty tuple <<>>; a   *)
(*     present value v is <<v>> (Some(v)).                                 *)
(*   - A Python dict is a sequence of [k, v] entries in insertion order.   *)
(*   - Mach numbers are integers in hundredths (90 is Mach 0.9), SPE       *)
(*     ratios and their half-widths are integers in units of 1e-3, roll    *)
(*     angles are integers in tenths of a degree (the file holds radians;  *)
(*     rad2deg maps the unit pi/1800 rad to a tenth of a degree).          *)
(*   - The floating-point pipeline of a point (least_squares,              *)
(*     iterate_pa_oat, eig) is deterministic in the point's data: what it  *)
(*     yields for a file (an exception, or per-sample values) is carried   *)
(*     with the file's data frame.                                         *)
(***************************************************************************)
EXTENDS Integers, Sequences, FiniteSets, TLC

VARIABLES
    constructed,      \* TRUE once JmossEstimator.__init__ has returned
    parameter_names,  \* self.parameter_names: the semantic names the mapping has
    use_oat,          \* self.use_oat
    flight_data,      \* self.flight_data: dict label -> data frame
    spe_results,      \* self.spe_results: dict label -> SpeResults
    spe_model,        \* self.spe_model: None or SpeModel
    last,             \* the last call made on the estimator: [op, err, done]
    mach_array,       \* the caller's own Mach array, handed to SpeModel.predict
    ret,              \* what the last call returned, when it was SpeModel.predict, or
                      \* showed, when it was a call of the visualizer
    util,             \* the air-data utility call in progress
    objects           \* the SpeResults and SpeModel objects created so far, and the
                      \* ones self.spe_results and self.spe_model refer to

vars == <<constructed, parameter_names, use_oat, flight_data, spe_results, spe_model, last,
          mach_array, ret, util, objects>>

(***************************************************************************)
(* Bounds                                                                  *)
(***************************************************************************)
\* longest explicit label list handed to process_test_points, get_results, fit_model
MaxLabels == 2

(***************************************************************************)
(* Python values                                                           *)
(***************************************************************************)
None == <<>>
Some(v) == <<v>>
IsNone(x) == x = <<>>
Val(x) == x[1]

NoErr == "none"

\* no object created yet: an empty heap, no result and no model referred to
NoObjects == [heap |-> <<>>, results |-> <<>>, model |-> <<>>]

Abs(x) == IF x < 0 THEN -x ELSE x

\* dict.get(k, None)
DictGet(d, k) ==
    IF \E i \in 1..Len(d) : d[i].k = k
    THEN Some((d[CHOOSE i \in 1..Len(d) : d[i].k = k]).v)
    ELSE None

\* d[k] = v: an existing key keeps its position, a new key goes last
DictPut(d, k, v) ==
    IF \E i \in 1..Len(d) : d[i].k = k
    THEN [i \in 1..Len(d) |-> IF d[i].k = k THEN [k |-> k, v |-> v] ELSE d[i]]
    ELSE Append(d, [k |-> k, v |-> v])

\* list(d.keys())
DictKeys(d) == [i \in 1..Len(d) |-> d[i].k]

KeySet(d) == {d[i].k : i \in 1..Len(d)}

(***************************************************************************)
(* The parameter-name mapping                                              *)
(***************************************************************************)
TempKeys == {"ambient temperature", "total temperature"}

BaseKeys == {"time", "north velocity", "east velocity", "down velocity",
             "geometric height", "total pressure", "static pressure",
             "angle of attack", "angle of slideslip", "roll angle",
             "pitch angle", "true heading"}

\* the mappings a caller may hand to the constructor
Mappings == {BaseKeys \cup t : t \in SUBSET TempKeys}

(***************************************************************************)
(* The files on disk                                                       *)
(***************************************************************************)
\* the number of parameters the least-squares fit of a point solves for
NumParams == 5

\* a sample.  Pressures are in thousandths of the static pressure, which the files
\* hold constant over a point.  sig and tilt are the changes of the sample's ambient
\* pressure when the parameters move from the estimate to the end of the first and of
\* the second axis of the covariance ellipse of (Pa bias, eta); osig is the change of
\* its OAT along the second axis
SmpTilt(roll, mic, spe, sig, osig, tilt) ==
    [roll |-> roll, mic |-> mic, spe |-> spe, sig |-> sig, osig |-> osig, tilt |-> tilt]

\* a sample whose ambient pressure does not move along the second axis
Smp(roll, mic, spe, sig, osig) == SmpTilt(roll, mic, spe, sig, osig, 0)

AllCols == BaseKeys \cup TempKeys

\* cols:     the semantic names whose mapped column the file holds
\* micErr:   what mach_from_qc_pa raises on the file's indicated pressure ratio
\* numerics: what the least-squares / solver pipeline raises on the file's data
\* aux:      the standard errors the fit yields for north, east, down wind and eta
\* rows:     the samples
\* jac_rank: the column rank of the Jacobian least_squares returns on the file's data
FrameRank(cols, micErr, numerics, aux, rows, jac_rank) ==
    [cols |-> cols, micErr |-> micErr, numerics |-> numerics, aux |-> aux, rows |-> rows,
     jac_rank |-> jac_rank]

\* a file on whose data the Jacobian has full column rank
Frame(cols, micErr, numerics, aux, rows) ==
    FrameRank(cols, micErr, numerics, aux, rows, NumParams)

Path(dir, stem, ext) == [dir |-> dir, name |-> <<stem, ext>>]

\* subsonic point; samples at exactly +10 and -10 degrees, two turning samples (one
\* of them above Mach 0.9), the fastest straight-and-level sample at exactly Mach 0.90
FileP1a == Path("runA", "P1", "csv")
FrameP1a == Frame(AllCols, NoErr, NoErr, <<3, 4, 2, 1>>,
                  << Smp(0, 50, 20, 2, 1), Smp(100, 55, 25, 3, 1), Smp(101, 95, 40, 4, 2),
                     Smp(-150, 58, 35, 5, 2), Smp(-100, 45, 15, 2, 1), Smp(30, 90, 22, 3, 1) >>)

\* a file with the same basename in another directory; on its data the Mach solver
\* finds no root in its bracket while the point is processed
FileP1b == Path("runB", "P1", "csv")
FrameP1b == Frame(AllCols, NoErr, "ValueError", <<0, 0, 0, 0>>,
                  << Smp(20, 80, 0, 0, 0), Smp(0, 85, 0, 0, 0) >>)

\* a file that cannot be read
FileP1c == Path("runC", "P1", "txt")

\* transonic/supersonic point, one turning sample
FileP2a == Path("runA", "P2", "csv")
FrameP2a == Frame(AllCols, NoErr, NoErr, <<3, 4, 2, 1>>,
                  << Smp(0, 95, 60, 5, 2), Smp(10, 110, 80, 6, 2), Smp(250, 115, 95, 9, 3),
                     Smp(-20, 120, 70, 7, 2), Smp(5, 130, 65, 6, 2) >>)

\* a file whose roll column is missing
FileP2b == Path("runB", "P2", "csv")
FrameP2b == Frame(AllCols \ {"roll angle"}, NoErr, NoErr, <<3, 4, 2, 1>>,
                  << Smp(0, 70, 30, 3, 1), Smp(0, 75, 32, 3, 1) >>)

Files == {FileP1a, FileP1b, FileP1c, FileP2a, FileP2b}

\* a point flown through a climb and a descent: the Pa bias is pinned down, eta is
\* loose, and moving eta raises the pressure altitude of the samples above the first
\* one and lowers it for the samples below
FileP3a == Path("runA", "P3", "csv")
FrameP3a == Frame(AllCols, NoErr, NoErr, <<2, 2, 1, 6>>,
                  << SmpTilt(0, 50, 20, 0, 3, 0), SmpTilt(0, 55, 24, 0, 3, -4),
                     SmpTilt(0, 60, 26, 0, 3, 2), SmpTilt(0, 65, 27, 0, 3, 6),
                     SmpTilt(0, 70, 25, 0, 3, -2) >>)

\* a point flown on one heading at one speed: the columns of the Pa bias and of eta
\* are combinations of the wind columns.  On runA's data inv returns a matrix all the
\* same, on runB's it meets a zero pivot and raises
FileP4a == Path("runA", "P4", "csv")
FrameP4a == FrameRank(AllCols, NoErr, NoErr, <<9, 7, 1, 2>>,
                      << Smp(0, 60, 30, 8, 1), Smp(0, 60, 30, 8, 1), Smp(0, 60, 30, 8, 1) >>,
                      NumParams - 2)

FileP4b == Path("runB", "P4", "csv")
FrameP4b == FrameRank(AllCols, NoErr, "LinAlgError", <<0, 0, 0, 0>>,
                      << Smp(0, 60, 0, 0, 0), Smp(0, 60, 0, 0, 0) >>, NumParams - 2)

\* the files of the points processed one by one
PointFiles == {FileP1a, FileP2a, FileP3a, FileP4a, FileP4b}

\* pandas.read_csv: the data frame, or None when reading raises
read_csv(filename) ==
    CASE filename = FileP1a -> Some(FrameP1a)
      [] filename = FileP1b -> Some(FrameP1b)
      [] filename = FileP2a -> Some(FrameP2a)
      [] filename = FileP2b -> Some(FrameP2b)
      [] filename = FileP3a -> Some(FrameP3a)
      [] filename = FileP4a -> Some(FrameP4a)
      [] filename = FileP4b -> Some(FrameP4b)
      [] OTHER -> None

\* os.path.basename and os.path.splitext
basename(filename) == filename.name
splitext(name) == <<name[1], name[2]>>

\* the labels callers ask for
Labels == {"P1", "P2"}

RECURSIVE SeqsUpTo(_, _)
SeqsUpTo(S, n) ==
    IF n = 0 THEN {<<>>}
    ELSE LET shorter == SeqsUpTo(S, n - 1)
         IN shorter \cup {Append(s, x) : s \in {t \in shorter : Len(t) = n - 1}, x \in S}

\* the labels argument of process_test_points, get_results and fit_model
LabelArgs == {None} \cup {Some(l) : l \in SeqsUpTo(Labels, MaxLabels)}

(***************************************************************************)
(* JmossEstimator: construction and the test-point registry                *)
(***************************************************************************)
\* __init__ as it would be if a missing temperature key fell back to total temperature
JmossEstimator_init_defaults(mapping) ==
    [err |-> NoErr,
     obj |-> [flight_data |-> <<>>, spe_results |-> <<>>, spe_model |-> None,
              parameter_names |-> mapping],
     use_oat |-> Some("ambient temperature" \in mapping)]

\* __init__ as it would be if it insisted on exactly one temperature key
JmossEstimator_init_exactly_one(mapping) ==
    [err |-> IF Cardinality(mapping \cap TempKeys) = 1 THEN NoErr ELSE "KeyError",
     obj |-> [flight_data |-> <<>>, spe_results |-> <<>>, spe_model |-> None,
              parameter_names |-> mapping],
     use_oat |-> IF Cardinality(mapping \cap TempKeys) = 1
                 THEN Some("ambient temperature" \in mapping) ELSE None]

\* __init__: the fields as the constructor leaves them, and what it raises
JmossEstimator_init(mapping) ==
    LET base == [flight_data |-> <<>>, spe_results |-> <<>>, spe_model |-> None,
                 parameter_names |-> mapping]
    IN  IF "ambient temperature" \in mapping
        THEN [err |-> NoErr, obj |-> base, use_oat |-> Some(TRUE)]
        ELSE IF "total temperature" \in mapping
        THEN [err |-> NoErr, obj |-> base, use_oat |-> Some(FALSE)]
        ELSE [err |-> "KeyError", obj |-> base, use_oat |-> None]

\* test_point_names_list
test_point_names_list(fd) == DictKeys(fd)

\* results_names_list
results_names_list(res) == DictKeys(res)

\* get_test_point
get_test_point(fd, label) ==
    LET point == DictGet(fd, label)
    IN  IF IsNone(point)
        THEN [err |-> "IndexError", ret |-> None]
        ELSE [err |-> NoErr, ret |-> point]

\* the values of a column of a data frame, per sample
Column(data, parameter_name) ==
    [i \in 1..Len(data.rows) |->
        IF parameter_name = "roll angle" THEN data.rows[i].roll ELSE i]

\* get_test_point_parameter
get_test_point_parameter(fd, names, label, parameter_name) ==
    LET got == get_test_point(fd, label)
    IN  IF got.err # NoErr THEN [err |-> got.err, ret |-> None]
        ELSE IF parameter_name \notin names THEN [err |-> "KeyError", ret |-> None]
        ELSE IF parameter_name \notin Val(got.ret).cols THEN [err |-> "KeyError", ret |-> None]
        ELSE [err |-> NoErr, ret |-> Some(Column(Val(got.ret), parameter_name))]

\* the first error raised by reading the named parameters in order
RECURSIVE ParametersErr(_, _, _, _)
ParametersErr(fd, names, label, wanted) ==
    IF wanted = <<>> THEN NoErr
    ELSE LET got == get_test_point_parameter(fd, names, label, Head(wanted))
         IN  IF got.err # NoErr THEN got.err
             ELSE ParametersErr(fd, names, label, Tail(wanted))

\* get_test_point_summary: what it raises
get_test_point_summary(fd, names, label) ==
    LET e1 == ParametersErr(fd, names, label, <<"total pressure", "static pressure">>)
    IN  IF e1 # NoErr THEN e1
        ELSE IF Val(DictGet(fd, label)).micErr # NoErr THEN Val(DictGet(fd, label)).micErr
        ELSE ParametersErr(fd, names, label, <<"geometric height", "roll angle">>)

\* add_test_point as it would be without the check of the label
add_test_point_overwrite(fd, names, filename) ==
    LET label == splitext(basename(filename))[1]
        dataframe == read_csv(filename)
    IN  IF IsNone(dataframe) THEN [err |-> "FileNotFoundError", flight_data |-> fd]
        ELSE LET fd2 == DictPut(fd, label, Val(dataframe))
             IN  [err |-> get_test_point_summary(fd2, names, label), flight_data |-> fd2]

\* add_test_point as it would be if it registered the file in a registry of its own
add_test_point_forgets(fd, names, filename) ==
    LET label == splitext(basename(filename))[1]
        point == DictGet(fd, label)
        dataframe == read_csv(filename)
    IN  IF ~IsNone(point) THEN [err |-> "IndexError", flight_data |-> fd]
        ELSE IF IsNone(dataframe) THEN [err |-> "FileNotFoundError", flight_data |-> fd]
        ELSE LET fd2 == DictPut(<<>>, label, Val(dataframe))
             IN  [err |-> get_test_point_summary(fd2, names, label), flight_data |-> fd2]

\* add_test_point: the registry after the call, and what the call raises
add_test_point(fd, names, filename) ==
    LET label == splitext(basename(filename))[1]
        point == DictGet(fd, label)
        dataframe == read_csv(filename)
    IN  IF ~IsNone(point) THEN [err |-> "IndexError", flight_data |-> fd]
        ELSE IF IsNone(dataframe) THEN [err |-> "FileNotFoundError", flight_data |-> fd]
        ELSE LET fd2 == DictPut(fd, label, Val(dataframe))
             IN  [err |-> get_test_point_summary(fd2, names, label), flight_data |-> fd2]

(***************************************************************************)
(* Processing a test point                                                 *)
(***************************************************************************)
\* numpy.rad2deg on a roll angle held in units of pi/1800 rad: degrees, as a fraction
rad2deg(x) == [num |-> x, den |-> 10]

\* the roll limit, in degrees, above which a sample counts as turning
TurnLimit == 10

\* the mask as it would be with >= in place of >
turn_idx_inclusive(roll) ==
    [i \in 1..Len(roll) |-> Abs(rad2deg(roll[i]).num) >= TurnLimit * rad2deg(roll[i]).den]

\* abs(rad2deg(roll)) > 10, per sample
turn_idx(roll) ==
    [i \in 1..Len(roll) |-> Abs(rad2deg(roll[i]).num) > TurnLimit * rad2deg(roll[i]).den]

\* the parameters get_frame_transform reads, in order
FrameTransformParameters ==
    <<"roll angle", "pitch angle", "true heading", "angle of slideslip",
      "north velocity", "east velocity", "down velocity">>

\* the parameters extract_flight_data reads, in order
ExtractParameters ==
    <<"total pressure", "total temperature", "north velocity", "east velocity",
      "down velocity", "geometric height", "static pressure", "angle of attack">>

SigmaKeys == {"spe ratio", "oat", "north wind", "east wind", "down wind", "eta"}

\* numpy.sum
RECURSIVE SumTo(_, _)
SumTo(a, n) == IF n = 0 THEN 0 ELSE a[n] + SumTo(a, n - 1)

Sum(a) == SumTo(a, Len(a))

\* numpy.mean, as a fraction
mean(a) == [num |-> Sum(a), den |-> Len(a)]

FracLess(x, y) == x.num * y.den < y.num * x.den

\* numpy.argmin and numpy.argmax: the first position of the least / the greatest
argmin(a) ==
    CHOOSE i \in 1..Len(a) : /\ \A j \in 1..Len(a) : ~FracLess(a[j], a[i])
                             /\ \A j \in 1..(i - 1) : FracLess(a[i], a[j])

argmax(a) ==
    CHOOSE i \in 1..Len(a) : /\ \A j \in 1..Len(a) : ~FracLess(a[i], a[j])
                             /\ \A j \in 1..(i - 1) : FracLess(a[j], a[i])

\* numpy.sqrt, on the squares the covariances of the files are
sqrt(x) == CHOOSE r \in 0..x : r * r = x

\* raw_stats['covariance'][k, k] for the three wind components and eta
variance(data, k) == data.aux[k] * data.aux[k]

\* the four corners of the unit circle, one per column
circle == << <<1, 0>>, <<0, 1>>, <<-1, 0>>, <<0, -1>> >>

\* the ambient pressure iterate_pa_oat returns at a point of the ellipse (the
\* estimate moved by point[1] along the first axis and point[2] along the second)
amb_pres_at(data, point) ==
    [i \in 1..Len(data.rows) |-> (1000 - data.rows[i].spe) + point[1] * data.rows[i].sig
                                                          + point[2] * data.rows[i].tilt]

\* the OAT iterate_pa_oat returns at a point of the ellipse, less the estimated OAT
oat_at(data, point) == [i \in 1..Len(data.rows) |-> point[2] * data.rows[i].osig]

\* the means of the four ellipse points' curves
amb_press(data) ==
    << mean(amb_pres_at(data, circle[1])), mean(amb_pres_at(data, circle[2])),
       mean(amb_pres_at(data, circle[3])), mean(amb_pres_at(data, circle[4])) >>

oats(data) ==
    << mean(oat_at(data, circle[1])), mean(oat_at(data, circle[2])),
       mean(oat_at(data, circle[3])), mean(oat_at(data, circle[4])) >>

\* the curves of the ellipse points picked by the means
low_pa(data) == amb_pres_at(data, circle[argmin(amb_press(data))])
hi_pa(data) == amb_pres_at(data, circle[argmax(amb_press(data))])
low_oat(data) == oat_at(data, circle[argmin(oats(data))])
hi_oat(data) == oat_at(data, circle[argmax(oats(data))])

\* the high bound as it would be if it were computed from the high ambient pressure
hi_spe_from_hi_pa(data) == LET hi == hi_pa(data) IN [i \in 1..Len(data.rows) |-> 1000 - hi[i]]

\* (stat_pres - low_pa) / stat_pres and (stat_pres - hi_pa) / stat_pres, in thousandths
hi_spe(data) == LET low == low_pa(data) IN [i \in 1..Len(data.rows) |-> 1000 - low[i]]
low_spe(data) == LET hi == hi_pa(data) IN [i \in 1..Len(data.rows) |-> 1000 - hi[i]]

\* generate_inferences: self.sigmas (the curves of opposite ellipse points differ
\* by an even amount)
generate_inferences(data) ==
    LET hi == hi_spe(data)
        low == low_spe(data)
        hi_o == hi_oat(data)
        low_o == low_oat(data)
    IN  ("spe ratio" :> (<<>> \o [i \in 1..Len(data.rows) |-> (hi[i] - low[i]) \div 2]))
        @@ ("oat" :> (<<>> \o [i \in 1..Len(data.rows) |-> (hi_o[i] - low_o[i]) \div 2]))
        @@ ("north wind" :> sqrt(variance(data, 1)))
        @@ ("east wind" :> sqrt(variance(data, 2)))
        @@ ("down wind" :> sqrt(variance(data, 3)))
        @@ ("eta" :> sqrt(variance(data, 4)))

\* the sigmas generate_inferences records on the data of each file
Inferences ==
    << <<FrameP1a, generate_inferences(FrameP1a)>>, <<FrameP1b, generate_inferences(FrameP1b)>>,
       <<FrameP2a, generate_inferences(FrameP2a)>>, <<FrameP2b, generate_inferences(FrameP2b)>>,
       <<FrameP3a, generate_inferences(FrameP3a)>>, <<FrameP4a, generate_inferences(FrameP4a)>>,
       <<FrameP4b, generate_inferences(FrameP4b)>> >>

\* SpeResults.__init__: the stored result of a point (mach_ic of every sample is
\* mach_from_qc_pa of its indicated pressure ratio)
SpeResults(data, turning) ==
    [mach_ic   |-> [i \in 1..Len(data.rows) |-> data.rows[i].mic],
     spe_ratio |-> [i \in 1..Len(data.rows) |-> data.rows[i].spe],
     turn_idx  |-> turning,
     sigmas    |-> Inferences[CHOOSE f \in 1..Len(Inferences) : Inferences[f][1] = data][2]]

\* __process_test_point as it would be if a label without flight data were passed over
process_test_point_skips_unknown(fd, names, res, label) ==
    IF IsNone(DictGet(fd, label)) THEN [err |-> NoErr, spe_results |-> res]
    ELSE
    LET data == Val(DictGet(fd, label))
        e1 == ParametersErr(fd, names, label, FrameTransformParameters)
        e2 == ParametersErr(fd, names, label, ExtractParameters)
    IN  IF e1 # NoErr THEN [err |-> e1, spe_results |-> res]
        ELSE IF e2 # NoErr THEN [err |-> e2, spe_results |-> res]
        ELSE IF data.numerics # NoErr THEN [err |-> data.numerics, spe_results |-> res]
        ELSE IF data.micErr # NoErr THEN [err |-> data.micErr, spe_results |-> res]
        ELSE [err |-> NoErr,
              spe_results |-> DictPut(res, label,
                                SpeResults(data, turn_idx(Column(data, "roll angle"))))]

\* __process_test_point as it would be if the result were recorded before its
\* uncertainty propagation had run
process_test_point_records_early(fd, names, res, label) ==
    IF \A i \in 1..Len(test_point_names_list(fd)) : test_point_names_list(fd)[i] # label
    THEN [err |-> "IndexError", spe_results |-> res]
    ELSE
    LET data == Val(DictGet(fd, label))
        e1 == ParametersErr(fd, names, label, FrameTransformParameters)
        e2 == ParametersErr(fd, names, label, ExtractParameters)
        roll == get_test_point_parameter(fd, names, label, "roll angle")
    IN  IF e1 # NoErr THEN [err |-> e1, spe_results |-> res]
        ELSE IF e2 # NoErr THEN [err |-> e2, spe_results |-> res]
        ELSE IF roll.err # NoErr THEN [err |-> roll.err, spe_results |-> res]
        ELSE IF data.micErr # NoErr THEN [err |-> data.micErr, spe_results |-> res]
        ELSE IF data.numerics # NoErr
        THEN [err |-> data.numerics,
              spe_results |-> DictPut(res, label,
                                [SpeResults(data, turn_idx(Val(roll.ret)))
                                     EXCEPT !.sigmas = [key \in {} |-> 0]])]
        ELSE [err |-> NoErr,
              spe_results |-> DictPut(res, label, SpeResults(data, turn_idx(Val(roll.ret))))]

\* __process_test_point: the results registry after the call, and what the call raises
process_test_point(fd, names, res, label) ==
    IF \A i \in 1..Len(test_point_names_list(fd)) : test_point_names_list(fd)[i] # label
    THEN [err |-> "IndexError", spe_results |-> res]
    ELSE
    LET data == Val(DictGet(fd, label))
        e1 == ParametersErr(fd, names, label, FrameTransformParameters)
        e2 == ParametersErr(fd, names, label, ExtractParameters)
        roll == get_test_point_parameter(fd, names, label, "roll angle")
    IN  IF e1 # NoErr THEN [err |-> e1, spe_results |-> res]
        ELSE IF e2 # NoErr THEN [err |-> e2, spe_results |-> res]
        ELSE IF data.numerics # NoErr THEN [err |-> data.numerics, spe_results |-> res]
        ELSE IF roll.err # NoErr THEN [err |-> roll.err, spe_results |-> res]
        ELSE IF data.micErr # NoErr THEN [err |-> data.micErr, spe_results |-> res]
        ELSE [err |-> NoErr,
              spe_results |-> DictPut(res, label, SpeResults(data, turn_idx(Val(roll.ret))))]

\* the loop as it would be if it went on after a failure and raised the first error
\* at the end
RECURSIVE process_loop_continues(_, _, _, _, _)
process_loop_continues(fd, names, res, labels, i) ==
    IF i > Len(labels) THEN [err |-> NoErr, spe_results |-> res, done |-> Len(labels)]
    ELSE LET one == process_test_point(fd, names, res, labels[i])
             rest == process_loop_continues(fd, names, one.spe_results, labels, i + 1)
         IN  IF one.err # NoErr
             THEN [err |-> one.err, spe_results |-> rest.spe_results, done |-> i - 1]
             ELSE rest

\* the loop of process_test_points from position i on; done counts the labels completed
RECURSIVE process_loop(_, _, _, _, _)
process_loop(fd, names, res, labels, i) ==
    IF i > Len(labels) THEN [err |-> NoErr, spe_results |-> res, done |-> Len(labels)]
    ELSE LET one == process_test_point(fd, names, res, labels[i])
         IN  IF one.err # NoErr
             THEN [err |-> one.err, spe_results |-> one.spe_results, done |-> i - 1]
             ELSE process_loop(fd, names, one.spe_results, labels, i + 1)

\* process_test_points
process_test_points(fd, names, res, labels) ==
    process_loop(fd, names, res,
                 IF IsNone(labels) THEN test_point_names_list(fd) ELSE Val(labels), 1)

\* the loop as it would be if a label without a result were passed over
RECURSIVE get_results_loop_skips(_, _, _, _)
get_results_loop_skips(res, labels, i, all_results) ==
    IF i > Len(labels) THEN [err |-> NoErr, ret |-> Some(all_results)]
    ELSE LET results == DictGet(res, labels[i])
         IN  IF IsNone(results) THEN get_results_loop_skips(res, labels, i + 1, all_results)
             ELSE get_results_loop_skips(res, labels, i + 1, Append(all_results, Val(results)))

\* the loop of get_results from position i on
RECURSIVE get_results_loop(_, _, _, _)
get_results_loop(res, labels, i, all_results) ==
    IF i > Len(labels) THEN [err |-> NoErr, ret |-> Some(all_results)]
    ELSE LET results == DictGet(res, labels[i])
         IN  IF IsNone(results) THEN [err |-> "IndexError", ret |-> None]
             ELSE get_results_loop(res, labels, i + 1, Append(all_results, Val(results)))

\* get_results as it would be if no labels meant every recorded result
get_results_of_recorded(fd, res, labels) ==
    get_results_loop(res, IF IsNone(labels) THEN results_names_list(res) ELSE Val(labels),
                     1, <<>>)

\* get_results
get_results(fd, res, labels) ==
    get_results_loop(res, IF IsNone(labels) THEN test_point_names_list(fd) ELSE Val(labels),
                     1, <<>>)

(***************************************************************************)
(* The cross-point model                                                   *)
(***************************************************************************)
\* numpy boolean indexing a[~mask]
RECURSIVE NotMasked(_, _)
NotMasked(a, mask) ==
    IF a = <<>> THEN <<>>
    ELSE IF Head(mask) THEN NotMasked(Tail(a), Tail(mask))
    ELSE <<Head(a)>> \o NotMasked(Tail(a), Tail(mask))

\* numpy.hstack of a list of arrays
RECURSIVE hstack(_)
hstack(arrays) == IF arrays = <<>> THEN <<>> ELSE Head(arrays) \o hstack(Tail(arrays))

\* a.max(initial=None) and a.min(initial=None) of a non-empty array
RECURSIVE SeqMax(_)
SeqMax(a) ==
    IF Len(a) = 1 THEN a[1]
    ELSE LET m == SeqMax(Tail(a)) IN IF a[1] > m THEN a[1] ELSE m

RECURSIVE SeqMin(_)
SeqMin(a) ==
    IF Len(a) = 1 THEN a[1]
    ELSE LET m == SeqMin(Tail(a)) IN IF a[1] < m THEN a[1] ELSE m

\* Mach 0.9, in hundredths: above it the regression gets spline knots
KnotStart == 90

\* the default num_knots
DefaultNumKnots == 20

\* the number of points of the model's stored Mach grid
GridPoints == 1000

\* numpy.linspace(start, stop, num) with its last value kept
LinspaceWhole(start, stop, num) ==
    [i \in 1..num |->
        [num |-> start * (num - 1) + (i - 1) * (stop - start), den |-> num - 1]]

\* numpy.linspace(start, stop, num)[0:-1], each value a fraction num/den
LinspaceButLast(start, stop, num) ==
    [i \in 1..(IF num >= 1 THEN num - 1 ELSE 0) |->
        [num |-> start * (num - 1) + (i - 1) * (stop - start), den |-> num - 1]]

\* numpy.array(knots) of caller-supplied knots
KnotArray(knots) == [i \in 1..Len(knots) |-> [num |-> knots[i], den |-> 1]]

\* the regression matrix without its knot columns
x_row_no_knots(mach, knots) ==
    <<[num |-> 1, den |-> 1], [num |-> mach, den |-> 1], [num |-> mach * mach, den |-> 1]>>

\* one row of the regression matrix: [1, M, M^2] and, for every knot, the column
\* (M - knot)^2 with the negative differences set to 0; entries are fractions
x_row(mach, knots) ==
    <<[num |-> 1, den |-> 1], [num |-> mach, den |-> 1], [num |-> mach * mach, den |-> 1]>>
    \o [j \in 1..Len(knots) |->
          LET mach_knot == mach * knots[j].den - knots[j].num
          IN  [num |-> IF mach_knot < 0 THEN 0 ELSE mach_knot * mach_knot,
               den |-> knots[j].den * knots[j].den]]

\* x_mat: column_stack([ones, machs, machs ** 2]), extended by the knot columns when
\* the largest Mach is above 0.9
x_mat(machs, knots) ==
    [i \in 1..Len(machs) |->
        IF SeqMax(machs) > KnotStart THEN x_row(machs[i], knots)
        ELSE <<[num |-> 1, den |-> 1], [num |-> machs[i], den |-> 1],
               [num |-> machs[i] * machs[i], den |-> 1]>>]

\* the weights' denominators: w = 1 / sigmas with sigmas = hstack(spes) ** 2
WeightDenominators(spes, sigmas) == [i \in 1..Len(spes) |-> spes[i] * spes[i]]

\* x_mat.T @ w_mat @ x_mat cannot have full rank: fewer distinct Mach values than
\* columns, or a knot column that is zero at every sample
RankDeficient(machs, knots, ncols) ==
    \/ Cardinality({machs[i] : i \in 1..Len(machs)}) < ncols
    \/ \E j \in 1..Len(knots) : \A i \in 1..Len(machs) : machs[i] * knots[j].den <= knots[j].num

\* fit_model: spe_model after the call, and what the call raises.  inv_raises is
\* whether numpy.linalg.inv raises on a matrix that is singular in exact arithmetic
\* (in floating point it may also return a matrix).  The fitted betas, kernel and mse
\* are the weighted-least-squares solution of the regression problem kept here: the
\* rows (machs, spes), the weights 1/wden, the columns (3 + the knot columns).
fit_model(fd, res, model, labels, knots, num_knots, inv_raises) ==
    LET got == get_results(fd, res, labels)
    IN  IF got.err # NoErr THEN [err |-> got.err, spe_model |-> model]
        ELSE
        LET results == Val(got.ret)
            machs == hstack([p \in 1..Len(results) |->
                        NotMasked(results[p].mach_ic, results[p].turn_idx)])
            spes == hstack([p \in 1..Len(results) |->
                        NotMasked(results[p].spe_ratio, results[p].turn_idx)])
            sigmas == hstack([p \in 1..Len(results) |->
                        NotMasked(results[p].sigmas["spe ratio"], results[p].turn_idx)])
            wden == WeightDenominators(spes, sigmas)
        IN  IF results = <<>> THEN [err |-> "ValueError", spe_model |-> model]
            ELSE IF machs = <<>> THEN [err |-> "ValueError", spe_model |-> model]
            ELSE
            LET supersonic == SeqMax(machs) > KnotStart
                used == IF ~supersonic THEN knots
                        ELSE IF IsNone(knots)
                        THEN Some(LinspaceButLast(KnotStart, SeqMax(machs),
                                    IF IsNone(num_knots) THEN DefaultNumKnots
                                    ELSE Val(num_knots)))
                        ELSE Some(KnotArray(Val(knots)))
                columns == IF supersonic THEN Val(used) ELSE <<>>
                ncols == Len(x_mat(machs, columns)[1])
            IN  IF inv_raises /\ RankDeficient(machs, columns, ncols)
                THEN [err |-> "LinAlgError", spe_model |-> model]
                ELSE [err |-> NoErr,
                      spe_model |-> Some(
                        [mach_ic |-> [start |-> SeqMin(machs), stop |-> SeqMax(machs),
                                      num |-> GridPoints],
                         stats |-> [knots |-> used,
                                    knots_type |-> IF supersonic THEN "ndarray"
                                                   ELSE IF IsNone(knots) THEN "NoneType"
                                                   ELSE "list",
                                    ncols |-> ncols, machs |-> machs,
                                    spes |-> spes, wden |-> wden,
                                    dof |-> Len(machs) - ncols]])]

\* the (knots, num_knots) arguments of fit_model: the defaults, knots supplied by the
\* caller, a number of knots supplied by the caller
KnotsArgs == {<<None, None>>, <<Some(<<95, 110>>), None>>, <<None, Some(3)>>}

\* the same, and a number of knots of 1, which leaves no knot
ModelKnotsArgs == KnotsArgs \cup {<<None, Some(1)>>}

(***************************************************************************)
(* SpeModel.predict                                                        *)
(***************************************************************************)
\* scipy.stats.chi2.ppf(q, 1) in units of 1e-5, for q in hundredths
chi2_ppf(q) ==
    CASE q = 68 -> 98895
      [] q = 90 -> 270554
      [] q = 95 -> 384146
      [] q = 99 -> 663490

\* the significance levels callers ask for, in hundredths (None: no alpha given)
AlphaArgs == {None, Some(32), Some(10), Some(5), Some(1)}

\* what sqrt(diag(mse * x_pred @ kernel @ x_pred.T)) is made of: positive and finite
\* when the regression has full rank and more rows than columns (mse > 0, kernel
\* positive definite); not finite when mse is a division by zero rows-minus-columns;
\* whatever inv left in the kernel when the normal matrix was singular
spe_std(stats) ==
    IF RankDeficient(stats.machs, IF stats.knots_type = "ndarray" THEN Val(stats.knots)
                                  ELSE <<>>, stats.ncols)
    THEN "garbage"
    ELSE IF stats.dof > 0 THEN "positive"
    ELSE "not finite"

\* the array predict evaluates: the stored grid (kept as the linspace it is) when
\* none is given, else the values of the caller's array
prediction_points(self, mach_ic) ==
    IF IsNone(mach_ic)
    THEN [linspace |-> self.mach_ic]
    ELSE [values |-> Val(mach_ic)]

\* mach_knots after line 359: mach_ic - knots, the negative entries set to 0, in a
\* new array (the squares of the entries are the knot columns of x_pred); entry by
\* entry for the values of a caller's array, as the expression it is for the grid
mach_knots(points, knots) ==
    IF "linspace" \in DOMAIN points
    THEN [clipped_differences_of |-> points.linspace, knots |-> knots]
    ELSE [i \in 1..Len(points.values) |->
            [j \in 1..Len(knots) |->
                LET difference == points.values[i] * knots[j].den - knots[j].num
                IN  [num |-> IF difference < 0 THEN 0 ELSE difference,
                     den |-> knots[j].den]]]

\* what predict raises and returns: (spe_ratio, ci) with spe_ratio = x_pred @ betas
\* and ci = sqrt(chi2val) * spe_std
predict_returns(self, mach_ic, alpha) ==
    LET points == prediction_points(self, mach_ic)
        knots == self.stats.knots
        x_cols == 3 + (IF IsNone(knots) THEN 0 ELSE Len(Val(knots)))
    IN  IF self.stats.knots_type = "list"
        THEN [err |-> "AttributeError", ret |-> None]
        ELSE IF x_cols # self.stats.ncols
        THEN [err |-> "ValueError", ret |-> None]
        ELSE [err |-> NoErr,
              ret |-> Some(
                [spe_ratio |-> [mach_ic |-> points,
                                mach_knots |-> IF IsNone(knots) THEN None
                                               ELSE Some(mach_knots(points, Val(knots))),
                                betas |-> [machs |-> self.stats.machs,
                                           spes |-> self.stats.spes,
                                           wden |-> self.stats.wden]],
                 ci |-> [chi2val |-> IF IsNone(alpha) THEN 100000
                                     ELSE chi2_ppf(100 - Val(alpha)),
                         spe_std |-> spe_std(self.stats)]])]

\* predict as it would be if it set the entries below Mach 0.9 to 0 in the array it
\* was given
predict_clips_in_place(self, mach_ic, alpha) ==
    [err |-> predict_returns(self, mach_ic, alpha).err,
     ret |-> predict_returns(self, mach_ic, alpha).ret,
     self |-> self,
     mach_ic |-> IF IsNone(mach_ic) THEN mach_ic
                 ELSE Some([i \in 1..Len(Val(mach_ic)) |->
                              IF Val(mach_ic)[i] < KnotStart THEN 0 ELSE Val(mach_ic)[i]])]

\* predict: what it raises and returns, the model and the caller's array after the
\* call (no statement of predict assigns to self or writes into mach_ic)
predict(self, mach_ic, alpha) ==
    [err |-> predict_returns(self, mach_ic, alpha).err,
     ret |-> predict_returns(self, mach_ic, alpha).ret,
     self |-> self,
     mach_ic |-> mach_ic]

(***************************************************************************)
(* The state machine: one action per call on the estimator                 *)
(***************************************************************************)
\* what every call leaves alone unless it says otherwise
Called(op, err, done) ==
    /\ last' = [op |-> op, err |-> err, done |-> done]
    /\ ret' = None
    /\ UNCHANGED <<mach_array, util, objects>>

Init ==
    /\ constructed = FALSE
    /\ parameter_names = {}
    /\ use_oat = None
    /\ flight_data = <<>>
    /\ spe_results = <<>>
    /\ spe_model = None
    /\ last = [op |-> "none", err |-> NoErr, done |-> 0]
    /\ mach_array = <<>>
    /\ ret = None
    /\ util = None
    /\ objects = NoObjects

\* estimator = JmossEstimator(mapping); a constructor that raises leaves no estimator
NewEstimatorOf(mapping) ==
    LET out == JmossEstimator_init(mapping)
    IN  /\ ~constructed
        /\ Called("__init__", out.err, 0)
        /\ IF out.err = NoErr
           THEN /\ constructed' = TRUE
                /\ parameter_names' = out.obj.parameter_names
                /\ use_oat' = out.use_oat
                /\ flight_data' = out.obj.flight_data
                /\ spe_results' = out.obj.spe_results
                /\ spe_model' = out.obj.spe_model
           ELSE UNCHANGED <<constructed, parameter_names, use_oat, flight_data,
                            spe_results, spe_model>>

NewEstimator == \E mapping \in Mappings : NewEstimatorOf(mapping)

\* estimator.add_test_point(filename)
AddTestPointOf(filename) ==
    LET out == add_test_point(flight_data, parameter_names, filename)
    IN  /\ constructed
        /\ flight_data' = out.flight_data
        /\ Called("add_test_point", out.err, 0)
        /\ UNCHANGED <<constructed, parameter_names, use_oat, spe_results, spe_model>>

AddTestPoint == \E filename \in Files : AddTestPointOf(filename)

\* estimator.get_test_point(label)
GetTestPointOf(label) ==
    /\ constructed
    /\ Called("get_test_point", get_test_point(flight_data, label).err, 0)
    /\ UNCHANGED <<constructed, parameter_names, use_oat, flight_data, spe_results, spe_model>>

GetTestPoint == \E label \in Labels : GetTestPointOf(label)

\* estimator.get_test_point_parameter(label, parameter_name)
GetTestPointParameterOf(label, parameter_name) ==
    /\ constructed
    /\ Called("get_test_point_parameter",
              get_test_point_parameter(flight_data, parameter_names, label,
                                       parameter_name).err, 0)
    /\ UNCHANGED <<constructed, parameter_names, use_oat, flight_data, spe_results, spe_model>>

\* the parameters callers ask for
AskedParameters == {"roll angle"} \cup TempKeys

GetTestPointParameter ==
    \E label \in Labels, parameter_name \in AskedParameters :
        GetTestPointParameterOf(label, parameter_name)

\* estimator.process_test_points(labels)
ProcessTestPointsOf(labels) ==
    LET out == process_test_points(flight_data, parameter_names, spe_results, labels)
    IN  /\ constructed
        /\ spe_results' = out.spe_results
        /\ Called("process_test_points", out.err, out.done)
        /\ UNCHANGED <<constructed, parameter_names, use_oat, flight_data, spe_model>>

ProcessTestPoints == \E labels \in LabelArgs : ProcessTestPointsOf(labels)

\* estimator.get_results(labels)
GetResultsOf(labels) ==
    /\ constructed
    /\ Called("get_results", get_results(flight_data, spe_results, labels).err, 0)
    /\ UNCHANGED <<constructed, parameter_names, use_oat, flight_data, spe_results, spe_model>>

GetResults == \E labels \in LabelArgs : GetResultsOf(labels)

\* estimator.fit_model(labels, knots, num_knots)
FitModelOf(labels, knots, num_knots, inv_raises) ==
    LET out == fit_model(flight_data, spe_results, spe_model, labels, knots,
                         num_knots, inv_raises)
    IN  /\ constructed
        \* inv can raise only where it is reached with a singular matrix
        /\ inv_raises => out.err = "LinAlgError"
        /\ spe_model' = out.spe_model
        /\ Called("fit_model", out.err, 0)
        /\ UNCHANGED <<constructed, parameter_names, use_oat, flight_data, spe_results>>

FitModel ==
    \E labels \in LabelArgs, knots \in KnotsArgs, inv_raises \in BOOLEAN :
        FitModelOf(labels, knots[1], knots[2], inv_raises)

Next ==
    \/ NewEstimator
    \/ AddTestPoint
    \/ GetTestPoint
    \/ GetTestPointParameter
    \/ ProcessTestPoints
    \/ GetResults
    \/ FitModel

Spec == Init /\ [][Next]_vars

(***************************************************************************)
(* Querying the fitted model: the estimator after the demo's steps         *)
(* (construct, add the files, process them), then fit_model and            *)
(* spe_model.predict in any order                                          *)
(***************************************************************************)
\* the demo's mapping
DemoMapping == BaseKeys \cup {"total temperature"}

\* the registry after add_test_point on each file in turn
RECURSIVE AddedInTurn(_, _)
AddedInTurn(fd, filenames) ==
    IF filenames = <<>> THEN fd
    ELSE AddedInTurn(add_test_point(fd, DemoMapping, Head(filenames)).flight_data,
                     Tail(filenames))

\* the files the demo adds
DemoFiles == {<<FileP1a>>, <<FileP2a>>, <<FileP1a, FileP2a>>, <<FileP2a, FileP1a>>}

\* the arrays callers hand to predict
MachArrays == {<<60, 100, 125>>, <<85, 95>>}

InitPredict ==
    \E filenames \in DemoFiles, array \in MachArrays :
        /\ constructed = TRUE
        /\ parameter_names = DemoMapping
        /\ use_oat = JmossEstimator_init(DemoMapping).use_oat
        /\ flight_data = AddedInTurn(<<>>, filenames)
        /\ spe_results = process_test_points(AddedInTurn(<<>>, filenames), DemoMapping,
                                             <<>>, None).spe_results
        /\ spe_model = None
        /\ last = [op |-> "process_test_points", err |-> NoErr, done |-> Len(filenames)]
        /\ mach_array = array
        /\ ret = None
        /\ util = None
        /\ objects = NoObjects

\* estimator.spe_model.predict(mach_ic, alpha), with the caller's array or without
PredictOf(with_array, alpha) ==
    LET out == predict(Val(spe_model), IF with_array THEN Some(mach_array) ELSE None, alpha)
    IN  /\ constructed
        /\ ~IsNone(spe_model)
        /\ spe_model' = Some(out.self)
        /\ mach_array' = IF with_array THEN Val(out.mach_ic) ELSE mach_array
        /\ ret' = out.ret
        /\ last' = [op |-> "predict", err |-> out.err, done |-> 0]
        /\ UNCHANGED <<constructed, parameter_names, use_oat, flight_data, spe_results, util,
                       objects>>

Predict == \E with_array \in BOOLEAN, alpha \in AlphaArgs : PredictOf(with_array, alpha)

\* estimator.fit_model(labels, knots, num_knots) before the model is queried
FitModelKnots ==
    \E labels \in LabelArgs, knots \in ModelKnotsArgs, inv_raises \in BOOLEAN :
        FitModelOf(labels, knots[1], knots[2], inv_raises)

NextPredict ==
    \/ FitModelKnots
    \/ Predict

SpecPredict == InitPredict /\ [][NextPredict]_vars

(***************************************************************************)
(* Processing the points one by one: an estimator built with the demo's    *)
(* mapping, then add_test_point and process_test_points in any order       *)
(***************************************************************************)
PointLabels == {"P1", "P2", "P3", "P4"}

\* process_test_points() and process_test_points(labels=[label])
PointLabelArgs == {None} \cup {Some(<<label>>) : label \in PointLabels}

InitPoint ==
    /\ constructed = TRUE
    /\ parameter_names = DemoMapping
    /\ use_oat = JmossEstimator_init(DemoMapping).use_oat
    /\ flight_data = <<>>
    /\ spe_results = <<>>
    /\ spe_model = None
    /\ last = [op |-> "__init__", err |-> NoErr, done |-> 0]
    /\ mach_array = <<>>
    /\ ret = None
    /\ util = None
    /\ objects = NoObjects

AddPointFile == \E filename \in PointFiles : AddTestPointOf(filename)

ProcessPoints == \E labels \in PointLabelArgs : ProcessTestPointsOf(labels)

NextPoint ==
    \/ AddPointFile
    \/ ProcessPoints

SpecPoint == InitPoint /\ [][NextPoint]_vars

(***************************************************************************)
(* The air-data utilities.  Mach numbers and qc/Pa ratios are in units of  *)
(* 1e-7, pressure altitudes in thousandths of a foot, pressure ratios in   *)
(* units of 1e-9.  Each closed form of the source is a table of its values *)
(* at the arguments the callers use, read at the nearest entry.            *)
(***************************************************************************)
\* the value of a tabulated function at the entry nearest to x
Lookup(table, x) ==
    LET nearest == CHOOSE i \in 1..Len(table) :
                       \A j \in 1..Len(table) : Abs(x - table[i][1]) <= Abs(x - table[j][1])
    IN  table[nearest][2]

\* the qc/Pa ratio above which mach_from_qc_pa searches for the root
SubsonicLimit == 8929300

\* Mach 1, where qc_pa_from_mach changes formula
MachOne == 10000000

\* the bracket of the root search
BracketLow == 10000000
BracketHigh == 30000000

\* ((1 + 0.2 M^2) ^ 3.5) - 1
IsentropicRatios ==
    << <<0, 0>>, <<3000000, 644303>>, <<5000000, 1862126>>, <<7000000, 3871013>>,
       <<9000000, 6913031>>, <<9900000, 8710464>>, <<9999990, 8929270>>, <<10000000, 8929292>> >>
\* 166.921 M^7 / (7 M^2 - 1) ^ 2.5 - 1
RayleighRatios ==
    << <<10000001, 8929228>>, <<10000020, 8929270>>, <<10000033, 8929299>>, <<10000034, 8929301>>,
       <<10000040, 8929314>>, <<10000046, 8929327>>, <<10000047, 8929330>>, <<10000100, 8929447>>,
       <<11000000, 11328400>>, <<15000000, 24132629>>, <<20000000, 46404212>>, <<25000000, 75261063>>,
       <<30000000, 110609228>> >>
\* sqrt(5 ((r + 1) ^ (2/7) - 1))
IsentropicRoots ==
    << <<0, 0>>, <<644303, 3000000>>, <<1862126, 5000000>>, <<3871013, 7000000>>,
       <<6913031, 9000000>>, <<8710464, 9900000>>, <<8929228, 9999971>>, <<8929270, 9999990>>,
       <<8929292, 10000000>>, <<8929299, 10000003>> >>
\* the root of m - 0.881284 sqrt((r + 1) (1 - 1 / (7 m^2)) ^ 2.5)
RayleighRoots ==
    << <<8929330, 10000001>>, <<8929447, 10000054>>, <<11328400, 10999955>>, <<24132629, 14999951>>,
       <<46404212, 19999940>>, <<75261063, 24999928>>, <<110609228, 29999915>> >>
\* the greatest ratio at which m - 0.881284 sqrt((r + 1) (1 - 1 / (7 m^2)) ^ 2.5) is
\* still positive, at the two ends of the bracket and at Mach 0.8
ZeroRatio(m) ==
    CASE m = BracketLow  -> 8929328
      [] m = BracketHigh -> 110609880
      [] m = 8000000     -> 5495126

\* the sign of the searched function at m
f_sign(m, qc_over_pa) == IF qc_over_pa <= ZeroRatio(m) THEN 1 ELSE -1

\* optimize.root_scalar(method='brentq', bracket=[1.0, 3.0]): it raises when the
\* function has the same sign at both ends of the bracket
root_scalar(qc_over_pa) ==
    IF f_sign(BracketLow, qc_over_pa) = f_sign(BracketHigh, qc_over_pa)
    THEN [err |-> "ValueError", ret |-> None]
    ELSE [err |-> NoErr, ret |-> Some(Lookup(RayleighRoots, qc_over_pa))]

\* numpy's nan (a missing value of a file, and whatever is computed from one): every
\* comparison with it is false, every arithmetic result on it is nan
NaN == -999999999
IsNaN(x) == x = NaN
Greater(x, y) == ~IsNaN(x) /\ ~IsNaN(y) /\ x > y

\* mach_from_qc_pa on one element
mach_from_qc_pa(qc_over_pa) ==
    LET high == Greater(qc_over_pa, SubsonicLimit)
    IN  IF high THEN root_scalar(qc_over_pa)
        ELSE IF IsNaN(qc_over_pa) THEN [err |-> NoErr, ret |-> Some(NaN)]
        ELSE [err |-> NoErr, ret |-> Some(Lookup(IsentropicRoots, Abs(qc_over_pa)))]

\* qc_pa_from_mach on one element
qc_pa_from_mach(mach) ==
    LET high == mach > MachOne
    IN  IF high THEN Lookup(RayleighRatios, mach) ELSE Lookup(IsentropicRatios, mach)

\* the tropopause altitude and the pressure ratio the inverse switches on
\* (0.223359324957103, to the unit)
TropopauseAltitude == 36089240
TropopauseDelta == 223359325

\* (1 - 6.87559e-6 h) ^ 5.2559
PowerLawDeltas ==
    << <<-1000000, 1036670097>>, <<0, 1000000000>>, <<5000000, 832047323>>,
       <<10000000, 687703175>>, <<20000000, 459541825>>, <<30000000, 296959251>>,
       <<36000000, 224319024>>, <<36089000, 223361901>>, <<36089239, 223359336>>,
       <<36089240, 223359325>>, <<36089241, 223359314>>, <<36089250, 223359218>>,
       <<36089300, 223358681>>, <<36089302, 223358659>>, <<36089303, 223358649>>,
       <<36089310, 223358573>>, <<36090000, 223351166>>, <<36100000, 223243835>>,
       <<40000000, 184448966>>, <<50000000, 109252657>>, <<60000000, 61064798>>,
       <<80000000, 15034196>> >>
\* 0.223360 exp(-4.80637e-5 (h - 36089.24))
ExponentialDeltas ==
    << <<36089241, 223359989>>, <<36089250, 223359893>>, <<36089300, 223359356>>,
       <<36089302, 223359334>>, <<36089303, 223359324>>, <<36089310, 223359249>>,
       <<36090000, 223351841>>, <<36100000, 223244516>>, <<40000000, 185085749>>,
       <<50000000, 114455056>>, <<60000000, 70777788>>, <<80000000, 27065808>> >>
\* 1.454420638810633e5 (1 - delta ^ (1 / 5.2559))
PowerLawAltitudes ==
    << <<223359325, 36089240>>, <<223359334, 36089239>>, <<223359336, 36089239>>,
       <<223359356, 36089237>>, <<223359893, 36089187>>, <<223359989, 36089178>>,
       <<223361901, 36089000>>, <<224319024, 36000000>>, <<296959251, 30000000>>,
       <<459541825, 20000000>>, <<687703175, 10000000>>, <<832047323, 5000000>>,
       <<1000000000, 0>>, <<1036670097, -1000000>> >>
\* -2.080572240589052e4 log(delta / 0.223359324957103) + 36089.24
LogarithmicAltitudes ==
    << <<15034196, 92232534>>, <<27065808, 79999937>>, <<61064798, 63071063>>,
       <<70777788, 59999937>>, <<109252657, 50967800>>, <<114455056, 49999937>>,
       <<184448966, 40071642>>, <<185085749, 39999937>>, <<223243835, 36100001>>,
       <<223244516, 36099937>>, <<223351166, 36090000>>, <<223351841, 36089937>>,
       <<223358573, 36089310>>, <<223358649, 36089303>>, <<223358659, 36089302>>,
       <<223358681, 36089300>>, <<223359218, 36089250>>, <<223359249, 36089247>>,
       <<223359314, 36089241>>, <<223359324, 36089240>>, <<223359325, 36089240>> >>
\* delta_from_press_alt with the power law at every altitude
delta_from_press_alt_power_law_only(press_alt) == Lookup(PowerLawDeltas, press_alt)

\* delta_from_press_alt on one element
delta_from_press_alt(press_alt) ==
    LET high == press_alt > TropopauseAltitude
    IN  IF high THEN Lookup(ExponentialDeltas, press_alt)
        ELSE Lookup(PowerLawDeltas, press_alt)

\* delta < 0.223359324957103: a ratio that is the threshold to the unit lies on
\* either side of it
delta_is_high(delta) ==
    IF delta < TropopauseDelta THEN {TRUE}
    ELSE IF delta > TropopauseDelta THEN {FALSE}
    ELSE {TRUE, FALSE}

\* press_alt_from_delta on one element, high being the outcome of its comparison
press_alt_from_delta(delta, high) ==
    IF high THEN Lookup(LogarithmicAltitudes, delta) ELSE Lookup(PowerLawAltitudes, delta)

\* the arguments the callers pass
MachInputs == {IsentropicRatios[i][1] : i \in 1..Len(IsentropicRatios)}
                  \cup {RayleighRatios[i][1] : i \in 1..Len(RayleighRatios)}
AltitudeInputs == {PowerLawDeltas[i][1] : i \in 1..Len(PowerLawDeltas)}

\* a call of a utility: its argument, what it raised, what it returned, and the
\* argument of the call whose return value it was given
UtilCall(op, arg, err, value, origin) ==
    /\ util' = Some([op |-> op, arg |-> arg, err |-> err, ret |-> value, origin |-> origin])
    /\ UNCHANGED <<constructed, parameter_names, use_oat, flight_data, spe_results,
                   spe_model, last, mach_array, ret, objects>>

InitUtil ==
    /\ constructed = FALSE
    /\ parameter_names = {}
    /\ use_oat = None
    /\ flight_data = <<>>
    /\ spe_results = <<>>
    /\ spe_model = None
    /\ last = [op |-> "none", err |-> NoErr, done |-> 0]
    /\ mach_array = <<>>
    /\ ret = None
    /\ util = None
    /\ objects = NoObjects

\* qc_pa_from_mach(array([mach]))
QcPaFromMach ==
    \E mach \in MachInputs :
        UtilCall("qc_pa_from_mach", mach, NoErr, Some(qc_pa_from_mach(mach)), None)

\* mach_from_qc_pa on what qc_pa_from_mach returned
MachFromQcPa ==
    /\ ~IsNone(util)
    /\ Val(util).op = "qc_pa_from_mach"
    /\ LET out == mach_from_qc_pa(Val(Val(util).ret))
       IN  UtilCall("mach_from_qc_pa", Val(Val(util).ret), out.err, out.ret,
                    Some(Val(util).arg))

\* delta_from_press_alt(array([press_alt]))
DeltaFromPressAlt ==
    \E press_alt \in AltitudeInputs :
        UtilCall("delta_from_press_alt", press_alt, NoErr,
                 Some(delta_from_press_alt(press_alt)), None)

\* press_alt_from_delta on what delta_from_press_alt returned
PressAltFromDelta ==
    /\ ~IsNone(util)
    /\ Val(util).op = "delta_from_press_alt"
    /\ \E high \in delta_is_high(Val(Val(util).ret)) :
           UtilCall("press_alt_from_delta", Val(Val(util).ret), NoErr,
                    Some(press_alt_from_delta(Val(Val(util).ret), high)),
                    Some(Val(util).arg))

\* 288.15 * theta_from_press_alt(press_alt), in hundredths of a kelvin
temp_std(press_alt) ==
    LET high == Greater(press_alt, TropopauseAltitude)
    IN  IF high THEN 21665
        ELSE IF IsNaN(press_alt) THEN NaN
        ELSE 28815 - ((press_alt \div 1000) * 19812) \div 100000

\* the data of a sample as its generating triple fixes them: the total pressure is
\* the ambient pressure at the pressure altitude pa times (1 + r), r the qc/Pa ratio
\* of the Mach number, and the total temperature is the OAT (eta is zero)
Sample(height, pa, r, tat) == [height |-> height, pa |-> pa, r |-> r, tat |-> tat]

\* (tot_pres - amb_pres) / amb_pres with amb_pres = 14.6960 * delta_from_press_alt(
\* pres_alt), to first order in the distance of pres_alt from the sample's pressure
\* altitude (d ln(delta) / dh = -0.010413 / T per foot, T the standard temperature)
qc_over_pa(sample, pres_alt) ==
    IF IsNaN(pres_alt) THEN NaN
    ELSE sample.r + (((((10000000 + sample.r) \div 1000) * (pres_alt - sample.pa)) \div 100)
                       * 1041) \div (10 * temp_std(sample.pa))

\* mach_from_qc_pa on the array of the samples: the first error, else the Mach numbers
mach_pc_of(data, pres_alt) ==
    LET each == [j \in 1..Len(data) |-> mach_from_qc_pa(qc_over_pa(data[j], pres_alt[j]))]
    IN  IF \E j \in 1..Len(data) : each[j].err # NoErr
        THEN [err |-> "ValueError", ret |-> <<>>]
        ELSE [err |-> NoErr, ret |-> [j \in 1..Len(data) |-> Val(each[j].ret)]]

\* oat_from_atm + bias, bias = oat_from_tat.mean() - oat_from_atm.mean(); with eta = 0
\* oat_from_tat is tat
oat_of(data, pres_alt) ==
    LET oat_from_tat == [j \in 1..Len(data) |-> data[j].tat]
        oat_from_atm == [j \in 1..Len(data) |-> temp_std(pres_alt[j])]
        bias == IF \E j \in 1..Len(data) : IsNaN(oat_from_tat[j]) \/ IsNaN(oat_from_atm[j])
                THEN NaN
                ELSE (Sum(oat_from_tat) - Sum(oat_from_atm)) \div Len(data)
    IN  [j \in 1..Len(data) |-> IF IsNaN(bias) THEN NaN ELSE oat_from_atm[j] + bias]

\* cumsum(hstack([height[0], delta[1:] * diff(height)])) + pa_bias, delta = temp_std / oat
RECURSIVE new_press_alt(_, _, _, _, _)
new_press_alt(data, pres_alt, oat, pa_bias, j) ==
    IF j = 1 THEN data[1].height + pa_bias
    ELSE LET before == new_press_alt(data, pres_alt, oat, pa_bias, j - 1)
         IN  IF IsNaN(before) \/ IsNaN(temp_std(pres_alt[j])) \/ IsNaN(oat[j]) THEN NaN
             ELSE before + (temp_std(pres_alt[j]) * (data[j].height - data[j - 1].height))
                               \div oat[j]

\* sum((a - b) ** 2)
SumSquares(a, b) ==
    IF \E j \in 1..Len(a) : IsNaN(a[j]) \/ IsNaN(b[j]) THEN NaN
    ELSE Sum([j \in 1..Len(a) |-> (a[j] - b[j]) * (a[j] - b[j])])

\* the most passes of the loop followed
MaxIterations == 8

\* the position inside iterate_pa_oat: in the loop, returned, or left by an exception
Solver(pc, data, pa_bias, pres_alt, oat, mach_pc, delta_pres_alt, delta_oat, iterations) ==
    [op |-> "iterate_pa_oat", pc |-> pc, data |-> data, pa_bias |-> pa_bias,
     pres_alt |-> pres_alt, oat |-> oat, mach_pc |-> mach_pc,
     delta_pres_alt |-> delta_pres_alt, delta_oat |-> delta_oat, iterations |-> iterations]

\* iterate_pa_oat up to the loop
iterate_pa_oat_begin(data, pa_bias) ==
    LET pres_alt == [j \in 1..Len(data) |-> data[j].height + pa_bias]
        mach == mach_pc_of(data, pres_alt)
    IN  IF mach.err # NoErr
        THEN Solver("raised", data, pa_bias, pres_alt, <<>>, <<>>, 0, 0, 0)
        ELSE Solver("loop", data, pa_bias, pres_alt, oat_of(data, pres_alt), mach.ret,
                    1000 * 1000000, 1000 * 10000, 0)

\* (delta_pres_alt > 1e-3) or (delta_oat > 1e-3)
loop_condition(self) == Greater(self.delta_pres_alt, 1000) \/ Greater(self.delta_oat, 10)

\* one pass of the loop
iterate_pa_oat_pass(self) ==
    LET n == Len(self.data)
        new == [j \in 1..n |-> new_press_alt(self.data, self.pres_alt, self.oat,
                                             self.pa_bias, j)]
        mach == mach_pc_of(self.data, new)
        new_oat == oat_of(self.data, new)
    IN  IF mach.err # NoErr
        THEN Solver("raised", self.data, self.pa_bias, new, self.oat, <<>>,
                    SumSquares(self.pres_alt, new), self.delta_oat, self.iterations + 1)
        ELSE Solver("loop", self.data, self.pa_bias, new, new_oat, mach.ret,
                    SumSquares(self.pres_alt, new), SumSquares(self.oat, new_oat),
                    self.iterations + 1)

\* synthetic data: the heights that integrate to the pressure altitudes pa on a day
\* warmer than standard by offset, every sample at the Mach number mach
RECURSIVE SyntheticHeight(_, _, _)
SyntheticHeight(pa, offset, j) ==
    IF j = 1 THEN pa[1]
    ELSE SyntheticHeight(pa, offset, j - 1)
           + ((pa[j] - pa[j - 1]) * (temp_std(pa[j]) + offset)) \div temp_std(pa[j])

Synthetic(pa, offset, mach) ==
    [j \in 1..Len(pa) |-> Sample(SyntheticHeight(pa, offset, j), pa[j],
                                  qc_pa_from_mach(mach), temp_std(pa[j]) + offset)]

\* the data with the total temperature of the last sample missing from the file
MissingValue(data) == [j \in 1..Len(data) |-> IF j = Len(data)
                                               THEN [data[j] EXCEPT !.tat = NaN] ELSE data[j]]

Profiles == {<<10000000, 10040000, 9980000>>, <<5000000, 5020000>>, <<40000000, 40030000>>}
Offsets == {0, 1000, -1500}
SolverMachs == {5000000, 9000000, 10000040, 20000000}

\* iterate_pa_oat(height, tot_pres, tat, 0, 0) up to its loop
IterateBegin ==
    \E pa \in Profiles, offset \in Offsets, mach \in SolverMachs, complete \in BOOLEAN :
        /\ util' = Some(iterate_pa_oat_begin(IF complete THEN Synthetic(pa, offset, mach)
                                              ELSE MissingValue(Synthetic(pa, offset, mach)),
                                              0))
        /\ UNCHANGED <<constructed, parameter_names, use_oat, flight_data, spe_results,
                       spe_model, last, mach_array, ret, objects>>

\* one pass of the while loop
IteratePass ==
    /\ ~IsNone(util)
    /\ Val(util).op = "iterate_pa_oat"
    /\ Val(util).pc = "loop"
    /\ loop_condition(Val(util))
    /\ Val(util).iterations < MaxIterations
    /\ util' = Some(iterate_pa_oat_pass(Val(util)))
    /\ UNCHANGED <<constructed, parameter_names, use_oat, flight_data, spe_results,
                   spe_model, last, mach_array, ret, objects>>

\* return amb_pres, oat, mach_pc
IterateReturn ==
    /\ ~IsNone(util)
    /\ Val(util).op = "iterate_pa_oat"
    /\ Val(util).pc = "loop"
    /\ ~loop_condition(Val(util))
    /\ util' = Some([Val(util) EXCEPT !.pc = "returned"])
    /\ UNCHANGED <<constructed, parameter_names, use_oat, flight_data, spe_results,
                   spe_model, last, mach_array, ret, objects>>

NextUtil ==
    \/ QcPaFromMach
    \/ MachFromQcPa
    \/ DeltaFromPressAlt
    \/ PressAltFromDelta
    \/ IterateBegin
    \/ IteratePass
    \/ IterateReturn

SpecUtil == InitUtil /\ [][NextUtil]_vars

(***************************************************************************)
(* JmossVisualizer (src/JMOSS/visualization.py): what each plotting or     *)
(* printing call shows, as the list of (legend label, result) pairs of its *)
(* loop over enumerate(results)                                            *)
(***************************************************************************)
\* for index, point in enumerate(results): ... labels[index] ...
enumerate_results(labels, results) ==
    IF Len(labels) < Len(results) THEN [err |-> "IndexError", shown |-> None]
    ELSE [err |-> NoErr,
          shown |-> Some([index \in 1..Len(results) |->
                             [label |-> labels[index], point |-> results[index]]])]

\* plot_spe_results(labels)
plot_spe_results(fd, res, labels) ==
    LET names == IF IsNone(labels) THEN results_names_list(res) ELSE Val(labels)
        results == IF IsNone(labels) THEN get_results(fd, res, None)
                   ELSE get_results(fd, res, labels)
    IN  IF results.err # NoErr THEN [err |-> results.err, shown |-> None]
        ELSE enumerate_results(names, Val(results.ret))

\* plot_oat_results(labels)
plot_oat_results(fd, res, labels) ==
    LET names == IF IsNone(labels) THEN results_names_list(res) ELSE Val(labels)
        results == IF IsNone(labels) THEN get_results(fd, res, None)
                   ELSE get_results(fd, res, labels)
    IN  IF results.err # NoErr THEN [err |-> results.err, shown |-> None]
        ELSE enumerate_results(names, Val(results.ret))

\* plot_adc_errors(labels=labels)
plot_adc_errors(fd, res, labels) ==
    LET names == IF IsNone(labels) THEN results_names_list(res) ELSE Val(labels)
        results == IF IsNone(labels) THEN get_results(fd, res, None)
                   ELSE get_results(fd, res, labels)
    IN  IF results.err # NoErr THEN [err |-> results.err, shown |-> None]
        ELSE enumerate_results(names, Val(results.ret))

\* print_aux_variable_results(labels): the results are those of get_results() in
\* every case
print_aux_variable_results(fd, res, labels) ==
    LET names == IF IsNone(labels) THEN results_names_list(res) ELSE Val(labels)
        results == get_results(fd, res, None)
    IN  IF results.err # NoErr THEN [err |-> results.err, shown |-> None]
        ELSE enumerate_results(names, Val(results.ret))

VisualizerCalls ==
    {"plot_spe_results", "plot_oat_results", "plot_adc_errors", "print_aux_variable_results"}

\* the call named op, made without labels
visualizer_call(op, fd, res) ==
    CASE op = "plot_spe_results" -> plot_spe_results(fd, res, None)
      [] op = "plot_oat_results" -> plot_oat_results(fd, res, None)
      [] op = "plot_adc_errors" -> plot_adc_errors(fd, res, None)
      [] op = "print_aux_variable_results" -> print_aux_variable_results(fd, res, None)

\* the files and the label arguments of the estimator the visualizer is built on
ShownFiles == {FileP1a, FileP2a, FileP3a}
ShownLabelArgs == {None, Some(<<"P1">>), Some(<<"P2">>), Some(<<"P3">>)}

InitShow ==
    /\ constructed = TRUE
    /\ parameter_names = DemoMapping
    /\ use_oat = JmossEstimator_init(DemoMapping).use_oat
    /\ flight_data = <<>>
    /\ spe_results = <<>>
    /\ spe_model = None
    /\ last = [op |-> "__init__", err |-> NoErr, done |-> 0]
    /\ mach_array = <<>>
    /\ ret = None
    /\ util = None
    /\ objects = NoObjects

AddShownFile == \E filename \in ShownFiles : AddTestPointOf(filename)

ProcessShown == \E labels \in ShownLabelArgs : ProcessTestPointsOf(labels)

\* visualizer.plot_spe_results(), plot_oat_results(), plot_adc_errors(),
\* print_aux_variable_results(): ret is what the call shows
ShowResults ==
    \E op \in VisualizerCalls :
        LET out == visualizer_call(op, flight_data, spe_results)
        IN  /\ last' = [op |-> op, err |-> out.err, done |-> 0]
            /\ ret' = out.shown
            /\ UNCHANGED <<constructed, parameter_names, use_oat, flight_data, spe_results,
                           spe_model, mach_array, util, objects>>

NextShow ==
    \/ AddShownFile
    \/ ProcessShown
    \/ ShowResults

SpecShow == InitShow /\ [][NextShow]_vars

(***************************************************************************)
(* Objects and references.  self.spe_results[label] and self.spe_model     *)
(* hold references: objects.heap lists every SpeResults and SpeModel       *)
(* object created, in the order of creation, objects.results maps a label  *)
(* to the position of the object its registry entry refers to and          *)
(* objects.model is the position of the object self.spe_model refers to.   *)
(***************************************************************************)
\* the most objects created over the life of an estimator
MaxObjects == 4

\* what a registry of references shows: spe_results, and spe_model
results_of(objs) ==
    [i \in 1..Len(objs.results) |->
        [k |-> objs.results[i].k, v |-> objs.heap[objs.results[i].v].state]]

model_of(objs) ==
    IF IsNone(objs.model) THEN None ELSE Some(objs.heap[Val(objs.model)].state)

\* the assignment as it would be if the object the entry refers to were filled again
store_result_in_place(objs, label, state) ==
    IF IsNone(DictGet(objs.results, label))
    THEN [heap |-> Append(objs.heap, [class |-> "SpeResults", state |-> state]),
          results |-> DictPut(objs.results, label, Len(objs.heap) + 1),
          model |-> objs.model]
    ELSE [objs EXCEPT !.heap[Val(DictGet(objs.results, label))].state = state]

\* results = self.SpeResults(...); self.spe_results[label] = results
store_result(objs, label, state) ==
    [heap |-> Append(objs.heap, [class |-> "SpeResults", state |-> state]),
     results |-> DictPut(objs.results, label, Len(objs.heap) + 1),
     model |-> objs.model]

\* the assignment as it would be if the model object already there were filled again
store_model_in_place(objs, state) ==
    IF IsNone(objs.model)
    THEN [heap |-> Append(objs.heap, [class |-> "SpeModel", state |-> state]),
          results |-> objs.results,
          model |-> Some(Len(objs.heap) + 1)]
    ELSE [objs EXCEPT !.heap[Val(objs.model)].state = state]

\* self.spe_model = self.SpeModel(smooth_mach, stats)
store_model(objs, state) ==
    [heap |-> Append(objs.heap, [class |-> "SpeModel", state |-> state]),
     results |-> objs.results,
     model |-> Some(Len(objs.heap) + 1)]

\* the loop of process_test_points on the objects, from position i on
RECURSIVE process_objects_loop(_, _, _, _, _)
process_objects_loop(fd, names, objs, labels, i) ==
    IF i > Len(labels) THEN [err |-> NoErr, objects |-> objs, done |-> Len(labels)]
    ELSE LET one == process_test_point(fd, names, results_of(objs), labels[i])
         IN  IF one.err # NoErr
             THEN [err |-> one.err, objects |-> objs, done |-> i - 1]
             ELSE process_objects_loop(fd, names,
                      store_result(objs, labels[i], Val(DictGet(one.spe_results, labels[i]))),
                      labels, i + 1)

\* process_test_points on the objects
process_objects(fd, names, objs, labels) ==
    process_objects_loop(fd, names, objs,
                         IF IsNone(labels) THEN test_point_names_list(fd) ELSE Val(labels), 1)

\* fit_model on the objects: what it leaves of flight_data and of the objects
fit_objects(fd, objs, labels, knots, num_knots, inv_raises) ==
    LET out == fit_model(fd, results_of(objs), model_of(objs), labels, knots, num_knots,
                         inv_raises)
    IN  [err |-> out.err, flight_data |-> fd,
         objects |-> IF out.err # NoErr THEN objs ELSE store_model(objs, Val(out.spe_model))]

\* process_test_points() and process_test_points(labels=[label]) on the demo's points
ObjectLabelArgs == {None, Some(<<"P1">>), Some(<<"P2">>)}

\* the files added: the demo's two, one that cannot be read, and one of the other
\* run whose roll column is missing
ObjectFiles == {FileP1a, FileP2a, FileP1c, FileP2b}

InitObjects ==
    /\ constructed = TRUE
    /\ parameter_names = DemoMapping
    /\ use_oat = JmossEstimator_init(DemoMapping).use_oat
    /\ flight_data = <<>>
    /\ spe_results = <<>>
    /\ spe_model = None
    /\ last = [op |-> "__init__", err |-> NoErr, done |-> 0]
    /\ mach_array = <<>>
    /\ ret = None
    /\ util = None
    /\ objects = NoObjects

\* estimator.add_test_point(filename)
AddObjectsFile == \E filename \in ObjectFiles : AddTestPointOf(filename)

\* estimator.process_test_points(labels), every SpeResults object it creates recorded
ProcessObjects ==
    \E labels \in ObjectLabelArgs :
        LET out == process_objects(flight_data, parameter_names, objects, labels)
        IN  /\ Len(out.objects.heap) <= MaxObjects
            /\ objects' = out.objects
            /\ spe_results' = results_of(out.objects)
            /\ last' = [op |-> "process_test_points", err |-> out.err, done |-> out.done]
            /\ ret' = None
            /\ UNCHANGED <<constructed, parameter_names, use_oat, flight_data, spe_model,
                           mach_array, util>>

\* estimator.fit_model(labels), the SpeModel object it creates recorded
FitObjects ==
    \E labels \in ObjectLabelArgs, knots \in KnotsArgs :
        LET out == fit_objects(flight_data, objects, labels, knots[1], knots[2], FALSE)
        IN  /\ Len(out.objects.heap) <= MaxObjects
            /\ objects' = out.objects
            /\ flight_data' = out.flight_data
            /\ spe_results' = results_of(out.objects)
            /\ spe_model' = model_of(out.objects)
            /\ last' = [op |-> "fit_model", err |-> out.err, done |-> 0]
            /\ ret' = None
            /\ UNCHANGED <<constructed, parameter_names, use_oat, mach_array, util>>

NextObjects ==
    \/ AddObjectsFile
    \/ ProcessObjects
    \/ FitObjects

SpecObjects == InitObjects /\ [][NextObjects]_vars

(***************************************************************************)
(* Vocabulary of the properties                                            *)
(***************************************************************************)
LabelOf(filename) == splitext(basename(filename))[1]

Registered(label) == label \in KeySet(flight_data)

Processed(label) == label \in KeySet(spe_results)

\* the labels a call covers: the given list, or every added test point
Covered(labels) == IF IsNone(labels) THEN DictKeys(flight_data) ELSE Val(labels)

\* the estimator's fields are what they were before the call
Untouched ==
    UNCHANGED <<constructed, parameter_names, use_oat, flight_data, spe_results, spe_model>>

\* processing the label on its own raises
FailsAlone(label) ==
    process_test_point(flight_data, parameter_names, spe_results, label).err # NoErr

\* the result that processing the label's registered data records
ExpectedResult(label) ==
    LET data == Val(DictGet(flight_data, label))
    IN  SpeResults(data, turn_idx([i \in 1..Len(data.rows) |-> data.rows[i].roll]))

\* the first position of the list that holds a never-added label
FirstUnregistered(list) ==
    CHOOSE k \in 1..Len(list) :
        /\ ~Registered(list[k])
        /\ \A i \in 1..(k - 1) : Registered(list[i])

\* the labels at the positions before k
Before(list, k) == {list[i] : i \in 1..(k - 1)}

(***************************************************************************)
(* C1  add_test_point of a file whose label is already registered raises   *)
(*     IndexError, also when the file cannot be read (the label is checked *)
(*     before the file is read), and leaves flight_data, spe_results and   *)
(*     spe_model as they were: the data registered first is kept.          *)
(***************************************************************************)
C1_DuplicateLabelRejected ==
    [][last'.op = "add_test_point" =>
          \A filename \in Files :
              (Registered(LabelOf(filename)) /\ AddTestPointOf(filename))
                  => /\ last'.err = "IndexError"
                     /\ Untouched]_vars

\* a duplicate add has been rejected while a point is registered
C1_Witness ==
    /\ last.op = "add_test_point"
    /\ last.err = "IndexError"
    /\ Registered("P1")

(***************************************************************************)
(* C2  (as stated) a get_test_point, get_test_point_parameter or           *)
(*     process_test_points call that meets a never-added label raises      *)
(*     IndexError and adds no entry to flight_data or spe_results and      *)
(*     leaves spe_model unchanged.  The process_test_points case is taken  *)
(*     where every label before the never-added one can be processed.      *)
(***************************************************************************)
C2_AsStated ==
    [][/\ last'.op = "get_test_point" =>
             \A label \in Labels :
                 (~Registered(label) /\ GetTestPointOf(label))
                     => last'.err = "IndexError" /\ Untouched
       /\ last'.op = "get_test_point_parameter" =>
             \A label \in Labels, parameter_name \in AskedParameters :
                 (~Registered(label) /\ GetTestPointParameterOf(label, parameter_name))
                     => last'.err = "IndexError" /\ Untouched
       /\ last'.op = "process_test_points" =>
             \A labels \in LabelArgs :
                 (/\ \E i \in 1..Len(Covered(labels)) : ~Registered(Covered(labels)[i])
                  /\ \A i \in 1..(FirstUnregistered(Covered(labels)) - 1) :
                        ~FailsAlone(Covered(labels)[i])
                  /\ ProcessTestPointsOf(labels))
                     => /\ last'.err = "IndexError"
                        /\ KeySet(flight_data') = KeySet(flight_data)
                        /\ KeySet(spe_results') = KeySet(spe_results)
                        /\ spe_model' = spe_model]_vars

(***************************************************************************)
(* C2  (amended) get_test_point and get_test_point_parameter for a         *)
(*     never-added label raise IndexError and change nothing.              *)
(*     process_test_points for a list that holds a never-added label       *)
(*     raises; it raises IndexError at that label when every label before  *)
(*     it is processed successfully; the failed call adds no entry to      *)
(*     flight_data, leaves spe_model unchanged and records no result for   *)
(*     the never-added label or any label that is not before it in the     *)
(*     list; the labels before it may have had their result recorded.      *)
(***************************************************************************)
C2_UnknownLabelRaises ==
    [][/\ last'.op = "get_test_point" =>
             \A label \in Labels :
                 (~Registered(label) /\ GetTestPointOf(label))
                     => last'.err = "IndexError" /\ Untouched
       /\ last'.op = "get_test_point_parameter" =>
             \A label \in Labels, parameter_name \in AskedParameters :
                 (~Registered(label) /\ GetTestPointParameterOf(label, parameter_name))
                     => last'.err = "IndexError" /\ Untouched
       /\ last'.op = "process_test_points" =>
             \A labels \in LabelArgs :
                 (/\ \E i \in 1..Len(Covered(labels)) : ~Registered(Covered(labels)[i])
                  /\ ProcessTestPointsOf(labels))
                     => LET list == Covered(labels)
                            k == FirstUnregistered(list)
                        IN  /\ last'.err # NoErr
                            /\ (\A i \in 1..(k - 1) : ~FailsAlone(list[i]))
                                  => last'.err = "IndexError" /\ last'.done = k - 1
                            /\ flight_data' = flight_data
                            /\ spe_model' = spe_model
                            /\ \A label \in Labels \ Before(list, k) :
                                  DictGet(spe_results', label) = DictGet(spe_results, label)]_vars

\* process_test_points has raised IndexError at a never-added label after it
\* recorded the result of a label before it
C2_Witness ==
    /\ last.op = "process_test_points"
    /\ last.err = "IndexError"
    /\ last.done >= 1
    /\ Len(flight_data) = 1

(***************************************************************************)
(* C3  get_results raises IndexError and returns no list if a requested    *)
(*     label has no recorded result; without labels it requests every      *)
(*     added test point, in the order they were added; on success it       *)
(*     returns the recorded results in the order of the requested labels.  *)
(***************************************************************************)
C3_GetResults ==
    constructed =>
        \A labels \in LabelArgs :
            LET list == IF IsNone(labels)
                        THEN [i \in 1..Len(flight_data) |-> flight_data[i].k]
                        ELSE Val(labels)
                out == get_results(flight_data, spe_results, labels)
            IN  IF \E i \in 1..Len(list) : ~Processed(list[i])
                THEN out.err = "IndexError" /\ IsNone(out.ret)
                ELSE /\ out.err = NoErr
                     /\ Len(Val(out.ret)) = Len(list)
                     /\ \A i \in 1..Len(list) :
                           Some(Val(out.ret)[i]) = DictGet(spe_results, list[i])

\* get_results has returned while the results were recorded in another order
\* than the points were added
C3_Witness ==
    /\ last.op = "get_results"
    /\ last.err = NoErr
    /\ Len(spe_results) = 2
    /\ DictKeys(spe_results) # DictKeys(flight_data)

(***************************************************************************)
(* C4  process_test_points handles its labels in list order and stops at   *)
(*     the first label that fails: when the call raises there is a         *)
(*     position k whose label fails, every label before k is processed     *)
(*     successfully and has its result recorded, and no label other than   *)
(*     those before k has its registry entry touched.                      *)
(***************************************************************************)
C4_StopsAtFirstFailure ==
    constructed =>
        \A labels \in LabelArgs :
            LET list == Covered(labels)
                out == process_test_points(flight_data, parameter_names, spe_results, labels)
            IN  out.err # NoErr =>
                    \E k \in 1..Len(list) :
                        /\ FailsAlone(list[k])
                        /\ out.done = k - 1
                        /\ \A i \in 1..(k - 1) :
                              /\ ~FailsAlone(list[i])
                              /\ DictGet(out.spe_results, list[i]) = Some(ExpectedResult(list[i]))
                        /\ \A label \in Labels \ Before(list, k) :
                              DictGet(out.spe_results, label) = DictGet(spe_results, label)

\* a call has failed after it recorded the result of an earlier label, and the
\* failing label has no result
C4_Witness ==
    /\ last.op = "process_test_points"
    /\ last.err \in {"KeyError", "ValueError"}
    /\ last.done >= 1
    /\ Len(spe_results) = 1
    /\ Len(flight_data) = 2

(***************************************************************************)
(* C5  fit_model builds a model only when every label it covers (the given *)
(*     labels, or every added test point) has a recorded result; otherwise *)
(*     it raises IndexError before any fitting and spe_model keeps the     *)
(*     value it had (None if no model was fitted yet).                     *)
(***************************************************************************)
C5_FitWaitsForResults ==
    constructed =>
        \A labels \in LabelArgs, knots \in KnotsArgs, inv_raises \in BOOLEAN :
            LET list == Covered(labels)
                out == fit_model(flight_data, spe_results, spe_model, labels,
                                 knots[1], knots[2], inv_raises)
            IN  /\ (\E i \in 1..Len(list) : ~Processed(list[i]))
                      => out.err = "IndexError" /\ out.spe_model = spe_model
                /\ out.spe_model # spe_model
                      => \A i \in 1..Len(list) : Processed(list[i])

\* fit_model has raised IndexError on an unprocessed point and the model fitted
\* before is still there
C5_Witness ==
    /\ last.op = "fit_model"
    /\ last.err = "IndexError"
    /\ ~IsNone(spe_model)
    /\ \E label \in Labels : Registered(label) /\ ~Processed(label)

(***************************************************************************)
(* C6  constructing the estimator with a mapping that has neither          *)
(*     'ambient temperature' nor 'total temperature' raises and yields no  *)
(*     estimator; when construction completes, flight_data and spe_results *)
(*     are empty and spe_model is None.                                    *)
(***************************************************************************)
C6_ConstructionNeedsTemperature ==
    [][last'.op = "__init__" =>
          \A mapping \in Mappings :
              NewEstimatorOf(mapping) =>
                  /\ (mapping \cap TempKeys = {}) => (last'.err # NoErr /\ ~constructed')
                  /\ constructed' => /\ flight_data' = <<>>
                                     /\ spe_results' = <<>>
                                     /\ IsNone(spe_model')
                                     /\ parameter_names' = mapping]_vars

\* a construction without a temperature key has raised
C6_Witness ==
    /\ last.op = "__init__"
    /\ last.err = "KeyError"
    /\ ~constructed

(***************************************************************************)
(* C7  (as stated) every constructed estimator has exactly one of the keys *)
(*     'ambient temperature' and 'total temperature' in its mapping: a     *)
(*     mapping with both keys is rejected like a mapping with neither.     *)
(***************************************************************************)
C7_AsStated ==
    constructed => Cardinality(parameter_names \cap TempKeys) = 1

(***************************************************************************)
(* C7  (amended) the constructor requires at least one of the two keys: a  *)
(*     mapping with neither is rejected, a mapping with both is accepted,  *)
(*     and 'ambient temperature' then decides the mode (use_oat is True    *)
(*     whenever the mapping has 'ambient temperature').                    *)
(***************************************************************************)
C7_AtLeastOneTemperature ==
    [][last'.op = "__init__" =>
          \A mapping \in Mappings :
              NewEstimatorOf(mapping) =>
                  /\ constructed' <=> (mapping \cap TempKeys # {})
                  /\ constructed' => use_oat' = Some("ambient temperature" \in mapping)]_vars

\* an estimator has been constructed from a mapping with both keys
C7_Witness ==
    /\ constructed
    /\ last.op = "__init__"
    /\ TempKeys \subseteq parameter_names
    /\ use_oat = Some(TRUE)

(***************************************************************************)
(* C8  for an estimator constructed with 'ambient temperature' and without *)
(*     'total temperature', process_test_points on an added label whose    *)
(*     file is complete and well-conditioned completes and records a       *)
(*     result for that label.                                              *)
(***************************************************************************)
C8_AmbientTemperatureProcesses ==
    (/\ constructed
     /\ "ambient temperature" \in parameter_names
     /\ "total temperature" \notin parameter_names)
        => \A label \in Labels :
              (/\ Registered(label)
               /\ DictGet(flight_data, label) \in {Some(FrameP1a), Some(FrameP2a)})
                  => LET out == process_test_points(flight_data, parameter_names,
                                                    spe_results, Some(<<label>>))
                     IN  /\ out.err = NoErr
                         /\ ~IsNone(DictGet(out.spe_results, label))

(***************************************************************************)
(* C9  fit_model uses exactly the samples of the selected results whose    *)
(*     |roll| is at most 10 degrees, in the order of the labels and of the *)
(*     samples: a sample above 10 degrees contributes no row, a sample at  *)
(*     exactly 10 degrees contributes one.                                 *)
(***************************************************************************)
AtMostTenDegrees(sample) == Abs(sample.roll) <= 100

RetainedSamples(label) == SelectSeq(Val(DictGet(flight_data, label)).rows, AtMostTenDegrees)

RECURSIVE RetainedOf(_)
RetainedOf(list) ==
    IF list = <<>> THEN <<>> ELSE RetainedSamples(Head(list)) \o RetainedOf(Tail(list))

C10_WeightsFromSigma ==
    [][(last'.op = "fit_model" /\ last'.err = NoErr) =>
          \A labels \in LabelArgs, knots \in KnotsArgs :
              FitModelOf(labels, knots[1], knots[2], FALSE) =>
                  LET rows == RetainedOf(Covered(labels))
                  IN  Val(spe_model').stats.wden =
                          [i \in 1..Len(rows) |-> rows[i].sig * rows[i].sig]]_vars

(***************************************************************************)
(* Vocabulary of the properties about fit_model                            *)
(***************************************************************************)
\* the indicated Mach of the samples fit_model retains for the labels
RetainedMachs(labels) ==
    LET rows == RetainedOf(Covered(labels)) IN [i \in 1..Len(rows) |-> rows[i].mic]

\* the number of knots the call asks for: the knots it supplies, or one fewer than
\* num_knots (20 when not given)
KnotsAskedFor(knots, num_knots) ==
    IF ~IsNone(knots) THEN Len(Val(knots))
    ELSE (IF IsNone(num_knots) THEN 20 ELSE Val(num_knots)) - 1

(***************************************************************************)
(* C11 (as stated) the design matrix of fit_model has knot columns, that   *)
(*     is more than the three columns [1, Mach, Mach^2], if and only if    *)
(*     the largest retained indicated Mach exceeds 0.9.                    *)
(***************************************************************************)
C11_AsStated ==
    constructed =>
        \A labels \in LabelArgs, knots \in ModelKnotsArgs :
            LET out == fit_model(flight_data, spe_results, spe_model, labels,
                                 knots[1], knots[2], FALSE)
            IN  out.err = NoErr =>
                    LET ncols == Val(out.spe_model).stats.ncols
                    IN  /\ ncols >= 3
                        /\ (ncols > 3) <=> (SeqMax(RetainedMachs(labels)) > 90)

(***************************************************************************)
(* C11 (amended) when the largest retained indicated Mach is at most 0.9   *)
(*     the design matrix has exactly the three columns [1, Mach, Mach^2],  *)
(*     whatever knots the caller passes; when it exceeds 0.9 the matrix    *)
(*     has those three columns and one column per knot in use, which are   *)
(*     no columns at all when the knot list is empty (num_knots = 1).      *)
(***************************************************************************)
C11_KnotColumns ==
    constructed =>
        \A labels \in LabelArgs, knots \in ModelKnotsArgs :
            LET out == fit_model(flight_data, spe_results, spe_model, labels,
                                 knots[1], knots[2], FALSE)
            IN  out.err = NoErr =>
                    Val(out.spe_model).stats.ncols =
                        IF SeqMax(RetainedMachs(labels)) > 90
                        THEN 3 + KnotsAskedFor(knots[1], knots[2])
                        ELSE 3

\* a model has been fitted with two knot columns on samples that reach Mach 1.30
C11_Witness ==
    /\ last.op = "fit_model"
    /\ last.err = NoErr
    /\ ~IsNone(spe_model)
    /\ SeqMax(Val(spe_model).stats.machs) = 130
    /\ Val(spe_model).stats.ncols = 5

C13_PredictIsPure ==
    [][last'.op = "predict" =>
          \A with_array \in BOOLEAN, alpha \in AlphaArgs :
              PredictOf(with_array, alpha) =>
                  LET again == predict(Val(spe_model'),
                                       IF with_array THEN Some(mach_array') ELSE None, alpha)
                  IN  /\ Untouched
                      /\ mach_array' = mach_array
                      /\ again.err = last'.err
                      /\ again.ret = ret'
                      /\ (~with_array /\ last'.err = NoErr) =>
                            /\ DOMAIN Val(ret').spe_ratio.mach_ic = {"linspace"}
                            /\ Val(ret').spe_ratio.mach_ic.linspace = Val(spe_model).mach_ic
                            /\ Val(spe_model).mach_ic.num = 1000]_vars

\* predict has returned on the caller's array, part of it below Mach 0.9, from a
\* model with two knots
C13_Witness ==
    /\ last.op = "predict"
    /\ last.err = NoErr
    /\ ~IsNone(ret)
    /\ Val(spe_model).stats.ncols = 5
    /\ DOMAIN Val(ret).spe_ratio.mach_ic = {"values"}
    /\ mach_array = <<60, 100, 125>>

(***************************************************************************)
(* C14 for a fitted model whose regression is well conditioned (full rank, *)
(*     more rows than columns) and a fixed Mach array, predict returns for *)
(*     every significance level, the half-width is sqrt(chi-square         *)
(*     quantile(1 - alpha, dof = 1)) times the standard error, exactly the *)
(*     standard error when no alpha is given, and a smaller alpha gives a  *)
(*     strictly wider interval at every Mach value.                        *)
(***************************************************************************)
C14_IntervalsWiden ==
    (~IsNone(spe_model) /\ spe_std(Val(spe_model).stats) = "positive") =>
        \A mach_ic \in {None, Some(mach_array)} :
            /\ \A alpha \in AlphaArgs :
                  LET out == predict(Val(spe_model), mach_ic, alpha)
                  IN  /\ out.err = NoErr
                      /\ Val(out.ret).ci.spe_std = "positive"
                      /\ IsNone(alpha) => Val(out.ret).ci.chi2val = 100000
            /\ \A lower \in AlphaArgs \ {None}, higher \in AlphaArgs \ {None} :
                  Val(lower) < Val(higher) =>
                      Val(predict(Val(spe_model), mach_ic, lower).ret).ci.chi2val
                          > Val(predict(Val(spe_model), mach_ic, higher).ret).ci.chi2val

\* the data of a recorded result's label
DataOf(label) == Val(DictGet(flight_data, label))

WidthKeys == <<"north wind", "east wind", "down wind", "eta">>

(***************************************************************************)
(* C15: for every processed point and every sample the recorded           *)
(*     half-widths sigmas['spe ratio'] and sigmas['oat'] are not negative, *)
(*     and the point estimates of the SPE ratio and of the OAT lie between *)
(*     the low and the high curve the half-widths are computed from.       *)
(***************************************************************************)
C15_BoundsOrdered ==
    \A k \in 1..Len(spe_results) :
        LET res == spe_results[k].v
            data == DataOf(spe_results[k].k)
        IN  \A i \in 1..Len(res.spe_ratio) :
                /\ res.sigmas["spe ratio"][i] >= 0
                /\ res.sigmas["oat"][i] >= 0
                /\ low_spe(data)[i] <= res.spe_ratio[i]
                /\ res.spe_ratio[i] <= hi_spe(data)[i]
                /\ low_oat(data)[i] <= 0
                /\ 0 <= hi_oat(data)[i]

(***************************************************************************)
(* C16: the widths recorded for the three wind components and for eta      *)
(*     follow the significance level asked for: for every level alpha the  *)
(*     recorded width is sqrt(chi2_quantile(1 - alpha, 1) * variance),     *)
(*     variance being the parameter's entry on the covariance diagonal.    *)
(***************************************************************************)
C16_WidthsFollowAlpha ==
    \A k \in 1..Len(spe_results), alpha \in AlphaArgs \ {None} :
        LET res == spe_results[k].v
            data == DataOf(spe_results[k].k)
        IN  \A p \in 1..Len(WidthKeys) :
                res.sigmas[WidthKeys[p]] * res.sigmas[WidthKeys[p]] * 100000
                    = chi2_ppf(100 - Val(alpha)) * variance(data, p)

(***************************************************************************)
(* C17: a point whose least-squares Jacobian is not of full column rank    *)
(*     has no result recorded: processing it fails with an error.          *)
(***************************************************************************)
C17_RankDeficientFails ==
    \A k \in 1..Len(spe_results) : DataOf(spe_results[k].k).jac_rank = NumParams

\* the round trip just made through a utility and its inverse
RoundTrip(inverse) == ~IsNone(util) /\ Val(util).op = inverse

(***************************************************************************)
(* C19: for every Mach number M in [0, 3], mach_from_qc_pa applied to      *)
(*     qc_pa_from_mach(M) returns M to within 1e-5, the two functions      *)
(*     taking the same branch (both subsonic or both supersonic); at       *)
(*     M = 1 the round trip returns 1.                                     *)
(***************************************************************************)
C19_MachRoundTrip ==
    RoundTrip("mach_from_qc_pa") =>
        LET call == Val(util)
            mach == Val(call.origin)
        IN  /\ call.err = NoErr
            /\ Abs(Val(call.ret) - mach) <= 100
            /\ (mach > MachOne) <=> (call.arg > SubsonicLimit)
            /\ mach = MachOne => Val(call.ret) = MachOne

(***************************************************************************)
(* C20: for every pressure altitude h, press_alt_from_delta applied to     *)
(*     delta_from_press_alt(h) returns h to within a tenth of a foot, also *)
(*     just below, at and just above the tropopause altitude 36089.24 ft.  *)
(***************************************************************************)
C20_AltitudeRoundTrip ==
    RoundTrip("press_alt_from_delta") =>
        /\ Val(util).err = NoErr
        /\ Abs(Val(Val(util).ret) - Val(Val(util).origin)) <= 100

\* an altitude just above the tropopause came back through the power-law branch of
\* the inverse, 0.063 ft lower
C20_Witness ==
    /\ RoundTrip("press_alt_from_delta")
    /\ Val(Val(util).origin) = TropopauseAltitude + 1
    /\ Val(util).arg > TropopauseDelta
    /\ Val(Val(util).ret) = 36089178

\* the call of iterate_pa_oat in progress or just ended
InSolver == ~IsNone(util) /\ Val(util).op = "iterate_pa_oat"

\* no value of the data is missing
Complete(data) == \A j \in 1..Len(data) : ~IsNaN(data[j].tat)

\* the returned pressure altitudes (so the ambient pressures), OATs and Mach numbers
\* are those of the generating triple to 0.05 ft, 0.05 K and 1e-5
ReturnsTheTriple(self) ==
    \A j \in 1..Len(self.data) :
        /\ Abs(self.pres_alt[j] - self.data[j].pa) <= 50
        /\ Abs(self.oat[j] - self.data[j].tat) <= 5
        /\ Abs(qc_pa_from_mach(self.mach_pc[j]) - self.data[j].r) <= 100

(***************************************************************************)
(* C18: on data generated from a known triple of ambient pressure, OAT and *)
(*     Mach number, with zero bias and zero eta, iterate_pa_oat leaves its *)
(*     loop within MaxIterations passes and returns that triple within the *)
(*     tolerance; it does not raise.                                       *)
(***************************************************************************)
C18_SolverReturnsTriple ==
    (InSolver /\ Complete(Val(util).data)) =>
        /\ Val(util).pc # "raised"
        /\ Val(util).pc = "loop" /\ loop_condition(Val(util))
               => Val(util).iterations < MaxIterations
        /\ Val(util).pc = "returned" => ReturnsTheTriple(Val(util))

\* the searched function changes sign between Mach 0.8 and the upper end of the bracket
RootInFallbackBracket(ratio) ==
    f_sign(8000000, ratio) # f_sign(BracketHigh, ratio)

(***************************************************************************)
(* C21: a mach_from_qc_pa call with a ratio above 0.89293 whose bracket    *)
(*     [1.0, 3.0] holds no root repeats the search on the bracket          *)
(*     [0.8, 3]: when that bracket holds a root the call returns a Mach    *)
(*     number instead of raising.                                          *)
(***************************************************************************)
C21_FallbackBracket ==
    (/\ RoundTrip("mach_from_qc_pa")
     /\ Val(util).arg > SubsonicLimit
     /\ f_sign(BracketLow, Val(util).arg) = f_sign(BracketHigh, Val(util).arg)
     /\ RootInFallbackBracket(Val(util).arg))
        => /\ Val(util).err = NoErr
           /\ ~IsNone(Val(util).ret)

(***************************************************************************)
(* C22: iterate_pa_oat returns only after at least one pass of its loop,   *)
(*     and only when the sums of squared changes of that last pass, of the *)
(*     pressure altitude and of the OAT, are both at most 1e-3.            *)
(***************************************************************************)
C22_ReturnsWithinTolerance ==
    (InSolver /\ Val(util).pc = "returned") =>
        /\ Val(util).iterations >= 1
        /\ ~IsNaN(Val(util).delta_pres_alt) /\ Val(util).delta_pres_alt <= 1000
        /\ ~IsNaN(Val(util).delta_oat) /\ Val(util).delta_oat <= 10

\* the ellipse points whose curve has the least and the greatest mean
LeastMean(curves) ==
    {p \in 1..Len(curves) : \A q \in 1..Len(curves) : ~FracLess(mean(curves[q]), mean(curves[p]))}
GreatestMean(curves) ==
    {p \in 1..Len(curves) : \A q \in 1..Len(curves) : ~FracLess(mean(curves[p]), mean(curves[q]))}

\* the ambient-pressure and the OAT curves of the ellipse points
PressureCurves(data) == [p \in 1..Len(circle) |-> amb_pres_at(data, circle[p])]
OatCurves(data) == [p \in 1..Len(circle) |-> oat_at(data, circle[p])]

(***************************************************************************)
(* C23: generate_inferences evaluates the solver at four points; the low   *)
(*     and the high ambient-pressure curve are those of the points with    *)
(*     the smallest and the largest mean ambient pressure (for the OAT, by *)
(*     the mean OAT), the high SPE bound is computed from the low          *)
(*     ambient-pressure curve and the low SPE bound from the high one: the *)
(*     recorded half-widths are half the difference of those bounds.       *)
(***************************************************************************)
C23_ExtremeCurves ==
    /\ Len(circle) = 4
    /\ \A k \in 1..Len(spe_results) :
          LET res == spe_results[k].v
              data == DataOf(spe_results[k].k)
              pa == PressureCurves(data)
              oat == OatCurves(data)
          IN  /\ \E low \in LeastMean(pa), hi \in GreatestMean(pa) :
                    \A i \in 1..Len(data.rows) :
                        res.sigmas["spe ratio"][i]
                            = ((1000 - pa[low][i]) - (1000 - pa[hi][i])) \div 2
              /\ \E low \in LeastMean(oat), hi \in GreatestMean(oat) :
                    \A i \in 1..Len(data.rows) :
                        res.sigmas["oat"][i] = (oat[hi][i] - oat[low][i]) \div 2

\* two points are processed: on runA/P1 the curves move along the first axis of the
\* ellipse, on runA/P3 along the second, and the half-widths are not all zero
C23_Witness ==
    /\ Processed("P1") /\ Processed("P3")
    /\ GreatestMean(PressureCurves(DataOf("P1"))) = {1}
    /\ GreatestMean(PressureCurves(DataOf("P3"))) = {2}
    /\ \E i \in 1..Len(DataOf("P3").rows) :
           Val(DictGet(spe_results, "P3")).sigmas["spe ratio"][i] # 0

\* the labels a process_test_points call goes through
LabelsOf(labels) == IF IsNone(labels) THEN test_point_names_list(flight_data) ELSE Val(labels)

(***************************************************************************)
(* C24: a result is in spe_results only once the whole sequence of its     *)
(*     point has completed: every recorded result carries the six sigma    *)
(*     entries, and a process_test_points call that fails at a label       *)
(*     leaves the registry entry of that label as it was, the label        *)
(*     without an entry when it had none.                                  *)
(***************************************************************************)
C24_ResultsAreComplete ==
    /\ \A k \in 1..Len(spe_results) : DOMAIN spe_results[k].v.sigmas = SigmaKeys
    /\ \A labels \in PointLabelArgs :
          LET out == process_test_points(flight_data, parameter_names, spe_results, labels)
              failed == LabelsOf(labels)[out.done + 1]
          IN  /\ \A k \in 1..Len(out.spe_results) :
                     DOMAIN out.spe_results[k].v.sigmas = SigmaKeys
              /\ out.err # NoErr =>
                     DictGet(out.spe_results, failed) = DictGet(spe_results, failed)

\* process_test_points() has just failed at runB/P4, whose covariance cannot be
\* inverted, after recording runA/P1: P1 has a complete result, P4 has none
C24_Witness ==
    /\ last.op = "process_test_points" /\ last.err = "LinAlgError" /\ last.done = 1
    /\ Registered("P4") /\ ~Processed("P4")
    /\ DataOf("P4").numerics = "LinAlgError"
    /\ Processed("P1")
    /\ DOMAIN Val(DictGet(spe_results, "P1")).sigmas = SigmaKeys

\* the objects there were are still there, each with the state it had
ObjectsKept(before, after) ==
    /\ Len(after.heap) >= Len(before.heap)
    /\ \A id \in 1..Len(before.heap) : after.heap[id] = before.heap[id]

(***************************************************************************)
(* C25: processing a label that already has a result creates a new result  *)
(*     object and makes the registry entry of the label refer to it; the   *)
(*     object the entry referred to before is not modified, and the        *)
(*     entries and the objects of all other labels are untouched.          *)
(***************************************************************************)
C25_ReprocessingReplaces ==
    \A i \in 1..Len(objects.results) :
        LET label == objects.results[i].k
            out == process_objects(flight_data, parameter_names, objects, Some(<<label>>))
        IN  out.err = NoErr =>
                /\ Len(out.objects.heap) = Len(objects.heap) + 1
                /\ out.objects.heap[Len(out.objects.heap)].class = "SpeResults"
                /\ DictGet(out.objects.results, label) = Some(Len(out.objects.heap))
                /\ ObjectsKept(objects, out.objects)
                /\ \A j \in 1..Len(objects.results) :
                       j # i => out.objects.results[j] = objects.results[j]
                /\ Len(out.objects.results) = Len(objects.results)

\* P1 and P2 were processed and P1 processed again: three result objects exist, the
\* entry of P1 refers to the third and the first still holds the result of P1
C25_Witness ==
    /\ Len(objects.heap) = 3
    /\ DictGet(objects.results, "P1") = Some(3)
    /\ DictGet(objects.results, "P2") = Some(2)
    /\ objects.heap[1] = objects.heap[3]
    /\ objects.heap[1].class = "SpeResults"
    /\ objects.heap[1].state = ExpectedResult("P1")
    /\ last = [op |-> "process_test_points", err |-> NoErr, done |-> 1]

(***************************************************************************)
(* C26: fit_model changes only spe_model: flight_data, the recorded        *)
(*     results and every result object are the same after the call as      *)
(*     before; a call that succeeds makes spe_model refer to a new model   *)
(*     object and does not modify the model object there was, a call that  *)
(*     fails leaves spe_model as it was.                                   *)
(***************************************************************************)
C26_FitChangesOnlyTheModel ==
    \A labels \in ObjectLabelArgs, knots \in KnotsArgs :
        LET out == fit_objects(flight_data, objects, labels, knots[1], knots[2], FALSE)
        IN  /\ out.flight_data = flight_data
            /\ out.objects.results = objects.results
            /\ results_of(out.objects) = spe_results
            /\ ObjectsKept(objects, out.objects)
            /\ out.err # NoErr => out.objects = objects
            /\ out.err = NoErr =>
                   /\ Len(out.objects.heap) = Len(objects.heap) + 1
                   /\ out.objects.model = Some(Len(out.objects.heap))
                   /\ out.objects.heap[Len(out.objects.heap)].class = "SpeModel"

\* a model was fitted on P1 and then another on P2: both model objects exist, they
\* differ, spe_model refers to the second and the results are as they were processed
C26_Witness ==
    /\ Len(objects.heap) = 4
    /\ objects.heap[3].class = "SpeModel" /\ objects.heap[4].class = "SpeModel"
    /\ objects.heap[3] # objects.heap[4]
    /\ objects.model = Some(4)
    /\ spe_model = Some(objects.heap[4].state)
    /\ objects.heap[1].state = ExpectedResult("P1")
    /\ objects.heap[2].state = ExpectedResult("P2")
    /\ last = [op |-> "fit_model", err |-> NoErr, done |-> 0]

(***************************************************************************)
(* C27: after any sequence of add_test_point, process_test_points and      *)
(*     fit_model calls, successful or failing, every label of spe_results  *)
(*     is a label of flight_data, and no call removes a label from         *)
(*     flight_data or from spe_results.                                    *)
(***************************************************************************)
C27_LabelsOnlyGrow ==
    /\ [](KeySet(spe_results) \subseteq KeySet(flight_data))
    /\ [][/\ KeySet(flight_data) \subseteq KeySet(flight_data')
          /\ KeySet(spe_results) \subseteq KeySet(spe_results')]_vars

\* both points are added, processed and fitted, and the call just made failed: an
\* add_test_point of a file whose label is taken
C27_Witness ==
    /\ KeySet(flight_data) = {"P1", "P2"}
    /\ KeySet(spe_results) = {"P1", "P2"}
    /\ ~IsNone(spe_model)
    /\ last.op = "add_test_point" /\ last.err = "IndexError"

(***************************************************************************)
(* C28: every model stored by fit_model is usable by predict: the number   *)
(*     of fitted coefficients is 3 plus the number of knots stored in the  *)
(*     model (3 when the stored knots are None), also when the caller      *)
(*     supplies knots and no retained sample exceeds Mach 0.9.             *)
(***************************************************************************)
C28_CoefficientsMatchKnots ==
    ~IsNone(spe_model) =>
        LET stats == Val(spe_model).stats
        IN  /\ stats.ncols = 3 + (IF IsNone(stats.knots) THEN 0 ELSE Len(Val(stats.knots)))
            /\ predict(Val(spe_model), None, None).err = NoErr

(***************************************************************************)
(* C29: add_test_point is all-or-nothing: a call that raises, whatever the *)
(*     reason, leaves flight_data as it was, so the label is not           *)
(*     registered by it and a later add_test_point of the same file is not *)
(*     rejected as a duplicate because of it.                              *)
(***************************************************************************)
C29_AddIsAllOrNothing ==
    constructed =>
        \A filename \in Files :
            LET out == add_test_point(flight_data, parameter_names, filename)
            IN  out.err # NoErr =>
                    /\ out.flight_data = flight_data
                    /\ ~Registered(LabelOf(filename)) =>
                           add_test_point(out.flight_data, parameter_names, filename).err
                               # "IndexError"

(***************************************************************************)
(* C30: plot_spe_results, plot_oat_results, plot_adc_errors and            *)
(*     print_aux_variable_results called without labels show each result   *)
(*     under its own label, whatever the order in which the points were    *)
(*     added and the order in which they were processed.                   *)
(***************************************************************************)
C30_ShownUnderOwnLabel ==
    (last.op \in VisualizerCalls /\ last.err = NoErr) =>
        \A index \in 1..Len(Val(ret)) :
            DictGet(spe_results, Val(ret)[index].label) = Some(Val(ret)[index].point)

====
